---- MODULE Spec2Model ----
(***************************************************************************)
(* A model of the reconciliation engine of the postgres operator.          *)
(*                                                                         *)
(* Spec      the event pipeline of the controller: the postgresql          *)
(*           watchers and the resync ticker enqueue cluster events into    *)
(*           the keyed FIFO of a worker, the workers pop and process them  *)
(*           against the cluster registry.                                 *)
(* PodSpec   a rolling update (recreatePods) of one cluster, with the pod   *)
(*           watcher, the two pod event dispatchers, the pod subscribers   *)
(*           and the pods as the API server and Patroni change them.       *)
(* FairSpec  Spec with the fairness of the ticker, of the clock and of the *)
(*           workers, for the liveness properties.                         *)
(***************************************************************************)
EXTENDS Integers, Sequences, FiniteSets, TLC

(***************************************************************************)
(* Bounds of the model.                                                    *)
(***************************************************************************)
\* number of cluster names, 1..NumClusters
NumClusters == 2
\* size of the worker pool (opConfig.Workers)
Workers == 2
\* number of changes users make to the manifests (create, update, delete)
MaxOps == 3
\* the resync period, in clock steps
ResyncPeriod == 1

\* number of pods of the cluster under a rolling update, 1..NumPods
NumPods == 2
\* number of pod events of a cluster that is not in the registry
MaxSpurious == 1

Clusters == 1..NumClusters
Pods == 1..NumPods
WorkerIDs == 0..(Workers - 1)

VARIABLES
    manifest,       \* the postgresql objects of the API server, by name
    queues,         \* c.clusterEventQueues: per worker, the keyed FIFO
    cur,            \* per worker, the event inside processEvent (or NoEvent)
    clusters,       \* c.clusters with cl.Error
    stopChs,        \* c.stopChs
    clusterLogs,    \* c.clusterLogs (its key set)
    teamClusters,   \* c.teamClusters
    crashed,        \* a panic left a goroutine unrecovered: the process died
    elapsed,        \* time.Now().Unix() - c.lastClusterSyncTime, capped
    sinceTick,      \* clock steps since the resync ticker fired
    ops,            \* number of manifest changes so far
    arrival,        \* history: per worker, the pending events in arrival order
    closes,         \* history: close() calls on the stop channel last made for a cluster
    pods,           \* the pods of the cluster in the API server: status and role label
    podCh,          \* c.podCh: the pod events the informer hands to the controller
    podEvents,      \* cl.podEvents: the pod events handed on to the cluster
    podSubscribers, \* cl.podSubscribers: pod name -> channel (0: none)
    nextCh,         \* the number of the next channel to make
    senders,        \* the goroutines "subscriber <- event" not yet received from
    rp,             \* the goroutine inside recreatePods: its position and locals
    deletions,      \* history: the pods recreatePods asked the API server to delete
    spurious,       \* number of pod events made that no deletion caused
    nodes,          \* the nodes in the API server: Unschedulable and Labels
    nodeReadinessLabel, \* c.opConfig.NodeReadinessLabel
    nodeEvent,      \* history: the last call of nodeUpdate and whether it moved the pods
    call,           \* the arguments of the function under study
    ret,            \* what the function returned (NoReturn: not called yet)
    run             \* the stop signal of Run, the closed queues and the workers that left

ctlVars == <<manifest, queues, cur, stopChs, clusterLogs, teamClusters,
             elapsed, sinceTick, ops, arrival, closes, run>>

podVars == <<pods, podCh, podEvents, podSubscribers, nextCh, senders, rp, deletions, spurious>>

auxVars == <<nodes, nodeReadinessLabel, nodeEvent, call, ret>>

vars == <<manifest, queues, cur, clusters, stopChs, clusterLogs, teamClusters,
          crashed, elapsed, sinceTick, ops, arrival, closes,
          pods, podCh, podEvents, podSubscribers, nextCh, senders, rp, deletions, spurious,
          nodes, nodeReadinessLabel, nodeEvent, call, ret, run>>

(***************************************************************************)
(* Data.                                                                   *)
(***************************************************************************)
EventAdd == "ADD"
EventUpdate == "UPDATE"
EventDelete == "DELETE"
EventSync == "SYNC"

\* a nil *spec.Postgresql
NilSpec == [name |-> 0, uid |-> 0, rv |-> 0, Error |-> FALSE]

\* the UID the API server gives to the gen-th object of a name
UIDOf(name, gen) == name + NumClusters * (gen - 1)

NoEvent == [EventType |-> "NONE", UID |-> 0, OldSpec |-> NilSpec, NewSpec |-> NilSpec, WorkerID |-> 0]

NoManifest == [present |-> FALSE, gen |-> 0, rv |-> 0, Error |-> FALSE]

\* the object the watchers and the list see for a present manifest
PgOf(name) ==
    [name |-> name, uid |-> UIDOf(name, manifest[name].gen), rv |-> manifest[name].rv,
     Error |-> manifest[name].Error]

NoCluster == [found |-> FALSE, Error |-> FALSE]

PodRoleMaster == "master"
PodRoleReplica == "replica"

\* the goroutine of recreatePods: pc is its position, listing the pods.Items
\* it took, idx the index of its loop, masterPod the pod it keeps for the end
\* (0: the empty pod), target the pod recreatePod was called for, inMaster
\* whether that call is the one for masterPod, err the error recreatePod is
\* about to return, result what recreatePods returned
NoRollingUpdate ==
    [pc |-> "idle", listing |-> <<>>, idx |-> 0, masterPod |-> 0, target |-> 0,
     inMaster |-> FALSE, err |-> FALSE, result |-> "none"]

\* strings.ToLower(cl.Spec.TeamID): the team is the prefix of the cluster name
Teams == {"acid", "data"}
TeamOf(name) == IF name % 3 = 0 THEN "data" ELSE "acid"

(***************************************************************************)
(* The worker of a cluster: a stable hash of the name modulo the pool size. *)
(***************************************************************************)
ClusterHash(name) == name

clusterWorkerID(name) == ClusterHash(name) % Workers

(***************************************************************************)
(* cache.FIFO with the key function of initController.                     *)
(***************************************************************************)
queueClusterKey(eventType, uid) == <<eventType, uid>>

KeyOf(e) == queueClusterKey(e.EventType, e.UID)

\* FIFO.Add: a key not yet pending goes to the end of the queue; the item of
\* a pending key is replaced where it stands.
FIFOAdd(q, e) ==
    IF \E i \in 1..Len(q) : KeyOf(q[i]) = KeyOf(e)
    THEN [i \in 1..Len(q) |-> IF KeyOf(q[i]) = KeyOf(e) THEN e ELSE q[i]]
    ELSE Append(q, e)

\* the name processEvent looks the cluster up by
EventClusterName(event) ==
    IF event.EventType = EventAdd \/ event.EventType = EventSync
    THEN event.NewSpec.name ELSE event.OldSpec.name

RECURSIVE SeqRemoveKey(_, _)
SeqRemoveKey(s, k) ==
    IF s = <<>> THEN <<>>
    ELSE IF Head(s).key = k THEN Tail(s)
    ELSE <<Head(s)>> \o SeqRemoveKey(Tail(s), k)

\* history: the pending events of a worker (key, event type, cluster) in the
\* order in which queueClusterEvent accepted them; an event replaced in the
\* FIFO is gone, its replacement arrived last
ArrivalAdd(a, e) ==
    Append(SeqRemoveKey(a, KeyOf(e)),
           [key |-> KeyOf(e), EventType |-> e.EventType, name |-> EventClusterName(e)])

(***************************************************************************)
(* queueClusterEvent: the queues (q) and the arrival history (a) after the *)
(* call.                                                                   *)
(***************************************************************************)
\* a pool that hands an event to the worker with the shorter queue
WorkerLeastLoaded(st, clusterName) ==
    IF Len(st.q[0]) <= Len(st.q[Workers - 1]) THEN 0 ELSE Workers - 1

\* the worker queueClusterEvent picks for an event of a cluster
WorkerFor(st, clusterName) == clusterWorkerID(clusterName)

QueueClusterEvent(st, old, new, eventType0) ==
    LET eventType == IF old # NilSpec /\ eventType0 = EventUpdate /\ ~new.Error /\ old.Error
                     THEN EventSync ELSE eventType0
        uid == IF old # NilSpec THEN old.uid ELSE new.uid
        clusterName == IF old # NilSpec THEN old.name ELSE new.name
        clusterError == IF old # NilSpec
                        THEN (IF eventType0 = EventUpdate /\ ~new.Error /\ old.Error
                              THEN new.Error ELSE old.Error)
                        ELSE new.Error
        workerID == WorkerFor(st, clusterName)
        clusterEvent == [EventType |-> eventType, UID |-> uid, OldSpec |-> old,
                         NewSpec |-> new, WorkerID |-> workerID]
    IN  IF clusterError /\ eventType # EventDelete
        THEN st
        ELSE [q |-> [st.q EXCEPT ![workerID] = FIFOAdd(@, clusterEvent)],
              a |-> [st.a EXCEPT ![workerID] = ArrivalAdd(@, clusterEvent)]]

\* no node, no node event, no call
NoNodes == <<>>
NoNodeEvent == [node |-> 0, moved |-> FALSE]
NoCall == [op |-> "none"]
NoReturn == [op |-> "none"]

\* the controller runs: no stop signal, every queue open, every worker in its loop
NoRun ==
    [stopped |-> FALSE, closed |-> [w \in WorkerIDs |-> FALSE],
     exited |-> [w \in WorkerIDs |-> FALSE]]

\* the parts of the state that belong to the node handler and to the
\* functions under study, at rest
AuxIdle ==
    /\ nodes = NoNodes
    /\ nodeReadinessLabel = <<>>
    /\ nodeEvent = NoNodeEvent
    /\ call = NoCall
    /\ ret = NoReturn

Init ==
    /\ AuxIdle
    /\ manifest = [c \in Clusters |-> NoManifest]
    /\ queues = [w \in WorkerIDs |-> <<>>]
    /\ cur = [w \in WorkerIDs |-> NoEvent]
    /\ clusters = [c \in Clusters |-> NoCluster]
    /\ stopChs = [c \in Clusters |-> "none"]
    /\ clusterLogs = {}
    /\ teamClusters = [t \in Teams |-> <<>>]
    /\ crashed = FALSE
    /\ elapsed = ResyncPeriod + 1
    /\ sinceTick = 0
    /\ ops = 0
    /\ arrival = [w \in WorkerIDs |-> <<>>]
    /\ closes = [c \in Clusters |-> 0]
    /\ run = NoRun
    /\ pods = [p \in Pods |-> [status |-> "running", role |-> "replica"]]
    /\ podCh = <<>>
    /\ podEvents = <<>>
    /\ podSubscribers = [p \in 0..NumPods |-> 0]
    /\ nextCh = 1
    /\ senders = {}
    /\ rp = NoRollingUpdate
    /\ deletions = <<>>
    /\ spurious = 0


(***************************************************************************)
(* The postgresql watchers.  Each action is a change of the manifest in    *)
(* the API server together with the handler the informer calls for it.     *)
(***************************************************************************)
postgresqlAdd(name, err) ==
    /\ ~crashed
    /\ ~run.stopped
    /\ ops < MaxOps
    /\ ~manifest[name].present
    /\ LET m == [present |-> TRUE, gen |-> manifest[name].gen + 1, rv |-> 1, Error |-> err]
           pg == [name |-> name, uid |-> UIDOf(name, m.gen), rv |-> 1, Error |-> err]
           st == QueueClusterEvent([q |-> queues, a |-> arrival], NilSpec, pg, EventAdd)
       IN  /\ manifest' = [manifest EXCEPT ![name] = m]
           /\ queues' = st.q
           /\ arrival' = st.a
    /\ ops' = ops + 1
    /\ UNCHANGED <<auxVars, podVars, run, cur, clusters, stopChs, clusterLogs, teamClusters, crashed,
                   elapsed, sinceTick, closes>>

\* specChanged: whether reflect.DeepEqual(pgOld.Spec, pgNew.Spec) is false
postgresqlUpdate(name, err, specChanged) ==
    /\ ~crashed
    /\ ~run.stopped
    /\ ops < MaxOps
    /\ manifest[name].present
    /\ specChanged \/ err = manifest[name].Error
    /\ LET pgOld == PgOf(name)
           pgNew == [pgOld EXCEPT !.rv = pgOld.rv + 1, !.Error = err]
           st == IF pgOld.rv = pgNew.rv \/ ~specChanged
                 THEN [q |-> queues, a |-> arrival]
                 ELSE QueueClusterEvent([q |-> queues, a |-> arrival], pgOld, pgNew, EventUpdate)
       IN  /\ manifest' = [manifest EXCEPT ![name].rv = pgNew.rv, ![name].Error = err]
           /\ queues' = st.q
           /\ arrival' = st.a
    /\ ops' = ops + 1
    /\ UNCHANGED <<auxVars, podVars, run, cur, clusters, stopChs, clusterLogs, teamClusters, crashed,
                   elapsed, sinceTick, closes>>

postgresqlDelete(name) ==
    /\ ~crashed
    /\ ~run.stopped
    /\ ops < MaxOps
    /\ manifest[name].present
    /\ LET st == QueueClusterEvent([q |-> queues, a |-> arrival], PgOf(name), NilSpec, EventDelete)
       IN  /\ manifest' = [manifest EXCEPT ![name].present = FALSE]
           /\ queues' = st.q
           /\ arrival' = st.a
    /\ ops' = ops + 1
    /\ UNCHANGED <<auxVars, podVars, run, cur, clusters, stopChs, clusterLogs, teamClusters, crashed,
                   elapsed, sinceTick, closes>>

(***************************************************************************)
(* clusterListFunc and the resync ticker.                                  *)
(***************************************************************************)
\* the loop over list.Items, in the order of the list, from item i on
RECURSIVE ListItemsLoop(_, _)
ListItemsLoop(st, i) ==
    IF i > NumClusters THEN st
    ELSE IF ~manifest[i].present THEN ListItemsLoop(st, i + 1)
    ELSE IF PgOf(i).Error THEN ListItemsLoop(st, i + 1)
    ELSE ListItemsLoop(QueueClusterEvent(st, NilSpec, PgOf(i), EventSync), i + 1)

\* the state after clusterListFunc: queues, arrival history, elapsed
ClusterListFunc ==
    IF elapsed <= ResyncPeriod
    THEN [q |-> queues, a |-> arrival, elapsed |-> elapsed]
    ELSE LET st == ListItemsLoop([q |-> queues, a |-> arrival], 1)
         IN  [q |-> st.q, a |-> st.a, elapsed |-> 0]

\* one second passes; the ticker fires when its period is over
ClockStep ==
    /\ ~crashed
    /\ sinceTick < ResyncPeriod
    /\ sinceTick' = sinceTick + 1
    /\ elapsed' = IF elapsed > ResyncPeriod THEN elapsed ELSE elapsed + 1
    /\ UNCHANGED <<auxVars, podVars, run, ops, manifest, queues, cur, clusters, stopChs, clusterLogs, teamClusters,
                   crashed, arrival, closes>>

clusterResync ==
    /\ ~crashed
    /\ ~run.stopped
    /\ sinceTick = ResyncPeriod
    /\ sinceTick' = 0
    /\ LET r == ClusterListFunc
       IN  /\ queues' = r.q
           /\ arrival' = r.a
           /\ elapsed' = r.elapsed
    /\ UNCHANGED <<auxVars, podVars, run, ops, manifest, cur, clusters, stopChs, clusterLogs, teamClusters,
                   crashed, closes>>

\* the ListFunc of the postgresql informer: a list at start and at every relist
informerList ==
    /\ ~crashed
    /\ ~run.stopped
    /\ elapsed > ResyncPeriod
    /\ LET r == ClusterListFunc
       IN  /\ queues' = r.q
           /\ arrival' = r.a
           /\ elapsed' = r.elapsed
    /\ UNCHANGED <<auxVars, podVars, run, ops, manifest, cur, clusters, stopChs, clusterLogs, teamClusters,
                   crashed, sinceTick, closes>>

(***************************************************************************)
(* The workers.                                                            *)
(***************************************************************************)
\* processClusterEventsQueue: Pop of the next event; processEvent follows
processClusterEventsQueue(w) ==
    /\ ~crashed
    /\ ~run.exited[w]
    /\ cur[w] = NoEvent
    /\ queues[w] # <<>>
    /\ cur' = [cur EXCEPT ![w] = Head(queues[w])]
    /\ queues' = [queues EXCEPT ![w] = Tail(@)]
    /\ arrival' = [arrival EXCEPT ![w] = SeqRemoveKey(@, KeyOf(Head(queues[w])))]
    /\ UNCHANGED <<auxVars, podVars, run, ops, manifest, clusters, stopChs, clusterLogs, teamClusters, crashed,
                   elapsed, sinceTick, closes>>

\* the removal of the first occurrence of a name from a team's list
RECURSIVE RemoveFirst(_, _)
RemoveFirst(s, x) ==
    IF s = <<>> THEN <<>>
    ELSE IF Head(s) = x THEN Tail(s)
    ELSE <<Head(s)>> \o RemoveFirst(Tail(s), x)

\* cluster.New, cl.Run(stopCh) and the registration under clustersMu
RegisterCluster(name) ==
    /\ teamClusters' = [teamClusters EXCEPT ![TeamOf(name)] = Append(@, name)]
    /\ stopChs' = [stopChs EXCEPT ![name] = "open"]
    /\ clusterLogs' = clusterLogs \cup {name}
    /\ closes' = [closes EXCEPT ![name] = 0]

EventAddCase(w, name, ok) ==
    IF clusters[name].found
    THEN UNCHANGED <<clusters, stopChs, clusterLogs, teamClusters, crashed, closes>>
    ELSE /\ RegisterCluster(name)
         /\ clusters' = [clusters EXCEPT ![name] = [found |-> TRUE, Error |-> ~ok]]
         /\ UNCHANGED crashed

\* an Update case that stores an error and never clears one
EventUpdateCaseKeepingError(w, name, ok) ==
    IF ~clusters[name].found
    THEN UNCHANGED <<clusters, stopChs, clusterLogs, teamClusters, crashed, closes>>
    ELSE /\ clusters' = [clusters EXCEPT ![name].Error = @ \/ ~ok]
         /\ UNCHANGED <<stopChs, clusterLogs, teamClusters, crashed, closes>>

EventUpdateCase(w, name, ok) ==
    IF ~clusters[name].found
    THEN UNCHANGED <<clusters, stopChs, clusterLogs, teamClusters, crashed, closes>>
    ELSE /\ clusters' = [clusters EXCEPT ![name].Error = ~ok]
         /\ UNCHANGED <<stopChs, clusterLogs, teamClusters, crashed, closes>>

\* a Delete case that drops the registry entry whatever cl.Delete() returns
EventDeleteCaseIgnoringError(w, name, ok) ==
    IF ~clusters[name].found
    THEN /\ crashed' = TRUE
         /\ UNCHANGED <<clusters, stopChs, clusterLogs, teamClusters, closes>>
    ELSE /\ closes' = [closes EXCEPT ![name] = @ + 1]
         /\ clusters' = [clusters EXCEPT ![name] = NoCluster]
         /\ stopChs' = [stopChs EXCEPT ![name] = "none"]
         /\ clusterLogs' = clusterLogs \ {name}
         /\ teamClusters' = [teamClusters EXCEPT ![TeamOf(name)] = RemoveFirst(@, name)]
         /\ UNCHANGED crashed

\* cl.Spec.TeamID is read before clusterFound is tested: a nil dereference
\* for an unknown cluster
EventDeleteCase(w, name, ok) ==
    IF ~clusters[name].found
    THEN /\ crashed' = TRUE
         /\ UNCHANGED <<clusters, stopChs, clusterLogs, teamClusters, closes>>
    ELSE IF ~ok
    THEN UNCHANGED <<clusters, stopChs, clusterLogs, teamClusters, crashed, closes>>
    ELSE /\ closes' = [closes EXCEPT ![name] = @ + 1]
         /\ clusters' = [clusters EXCEPT ![name] = NoCluster]
         /\ stopChs' = [stopChs EXCEPT ![name] = "none"]
         /\ clusterLogs' = clusterLogs \ {name}
         /\ teamClusters' = [teamClusters EXCEPT ![TeamOf(name)] = RemoveFirst(@, name)]
         /\ UNCHANGED crashed

EventSyncCase(w, name, ok) ==
    /\ IF ~clusters[name].found
       THEN RegisterCluster(name)
       ELSE UNCHANGED <<stopChs, clusterLogs, teamClusters, closes>>
    /\ clusters' = [clusters EXCEPT ![name] = [found |-> TRUE, Error |-> ~ok]]
    /\ UNCHANGED crashed

\* processEvent of this event calls cl.Create, cl.Update or cl.Sync
OperationRuns(event) ==
    \/ event.EventType = EventAdd /\ ~clusters[EventClusterName(event)].found
    \/ event.EventType = EventUpdate /\ clusters[EventClusterName(event)].found
    \/ event.EventType = EventSync

\* processEvent of the popped event; ok: whether cl.Create, cl.Update,
\* cl.Delete or cl.Sync returns without an error.  A panic ends the process
\* with the event still in the worker's hands.  ret keeps the cluster and
\* the outcome of the last Create, Update or Sync, and the Error before it.
processEvent(w, ok) ==
    /\ ~crashed
    /\ cur[w] # NoEvent
    /\ LET event == cur[w]
           name == EventClusterName(event)
       IN  CASE event.EventType = EventAdd -> EventAddCase(w, name, ok)
             [] event.EventType = EventUpdate -> EventUpdateCase(w, name, ok)
             [] event.EventType = EventDelete -> EventDeleteCase(w, name, ok)
             [] event.EventType = EventSync -> EventSyncCase(w, name, ok)
    /\ cur' = IF crashed' THEN cur ELSE [cur EXCEPT ![w] = NoEvent]
    /\ ret' = IF OperationRuns(cur[w])
              THEN [op |-> "processEvent", name |-> EventClusterName(cur[w]), err |-> ~ok,
                    was |-> clusters[EventClusterName(cur[w])].Error]
              ELSE ret
    /\ UNCHANGED <<nodes, nodeReadinessLabel, nodeEvent, call, podVars, run, ops, manifest, queues,
                   elapsed, sinceTick, arrival>>

Next ==
    \/ \E name \in Clusters, err \in BOOLEAN : postgresqlAdd(name, err)
    \/ \E name \in Clusters, err \in BOOLEAN, specChanged \in BOOLEAN :
          postgresqlUpdate(name, err, specChanged)
    \/ \E name \in Clusters : postgresqlDelete(name)
    \/ ClockStep
    \/ clusterResync
    \/ informerList
    \/ \E w \in WorkerIDs : processClusterEventsQueue(w)
    \/ \E w \in WorkerIDs, ok \in BOOLEAN : processEvent(w, ok)

Spec == Init /\ [][Next]_vars

\* the scheduling of the goroutines: the clock runs, the ticker fires, and a
\* worker that can pop or process an event does so
FairSpec ==
    /\ Spec
    /\ WF_vars(ClockStep)
    /\ WF_vars(clusterResync)
    /\ \A w \in WorkerIDs : WF_vars(processClusterEventsQueue(w))
    /\ \A w \in WorkerIDs : WF_vars(\E ok \in BOOLEAN : processEvent(w, ok))

(***************************************************************************)
(* Properties of the event pipeline.                                       *)
(***************************************************************************)
\* the clusters with an event pending in the queue of worker w or inside its
\* processEvent
ClustersOfWorker(w) ==
    {EventClusterName(queues[w][i]) : i \in 1..Len(queues[w])}
        \cup (IF cur[w] = NoEvent THEN {} ELSE {EventClusterName(cur[w])})

\* C1: no two events of one cluster are inside processEvent at once: the
\* events of a cluster, pending or in process, are all with one worker, and a
\* worker has at most one event in process.
C1_PerClusterSerialization ==
    \A w1 \in WorkerIDs, w2 \in WorkerIDs :
        w1 # w2 => ClustersOfWorker(w1) \cap ClustersOfWorker(w2) = {}

\* two workers are inside processEvent at once while a further event of one
\* of the two clusters is pending
C1_Witness ==
    \E w1 \in WorkerIDs, w2 \in WorkerIDs :
        /\ w1 # w2
        /\ cur[w1] # NoEvent
        /\ cur[w2] # NoEvent
        /\ \E i \in 1..Len(queues[w1]) :
              EventClusterName(queues[w1][i]) = EventClusterName(cur[w1])

\* the step in which worker w pops an event
IsPop(w) == cur[w] = NoEvent /\ cur'[w] # NoEvent

\* the entries of an arrival history that belong to a cluster
RECURSIVE OfCluster(_, _)
OfCluster(a, name) ==
    IF a = <<>> THEN <<>>
    ELSE IF Head(a).name = name THEN <<Head(a)>> \o OfCluster(Tail(a), name)
    ELSE OfCluster(Tail(a), name)

\* C2: the events of one cluster are handled in arrival order: the event a
\* worker pops is, among the pending events of its cluster, the one that
\* queueClusterEvent accepted first.
C2_ArrivalOrder ==
    [][\A w \in WorkerIDs :
          IsPop(w) =>
              Head(OfCluster(arrival[w], EventClusterName(cur'[w]))).key = KeyOf(cur'[w])]_vars

\* C7: once a Delete of a cluster is enqueued, no Add, Update or Sync of that
\* cluster that was pending at that time is processed: a worker never pops
\* such an event while a Delete of its cluster that arrived later is pending.
C7_DeleteFlushesPending ==
    [][\A w \in WorkerIDs :
          (IsPop(w) /\ cur'[w].EventType # EventDelete) =>
              ~\E i \in 1..Len(arrival[w]), j \in 1..Len(arrival[w]) :
                  /\ i < j
                  /\ arrival[w][i].key = KeyOf(cur'[w])
                  /\ arrival[w][j].EventType = EventDelete
                  /\ arrival[w][j].name = EventClusterName(cur'[w])]_vars

\* the four registry maps hold no entry of a cluster
AbsentFromRegistry(state_clusters, state_stopChs, state_clusterLogs, state_teamClusters, name) ==
    /\ ~state_clusters[name].found
    /\ state_stopChs[name] = "none"
    /\ name \notin state_clusterLogs
    /\ \A t \in Teams : \A i \in 1..Len(state_teamClusters[t]) : state_teamClusters[t][i] # name

\* C8: a registry entry is removed only by a Delete event whose cl.Delete()
\* succeeded; after it the cluster is in none of clusters, stopChs,
\* clusterLogs and teamClusters and its stop channel was closed exactly once;
\* a Delete event whose cl.Delete() failed leaves the four maps as they were
\* and the stop channel open.
C8_RegistryRemoval ==
    [][\A name \in Clusters :
          /\ (clusters[name].found /\ ~clusters'[name].found) =>
                 \E w \in WorkerIDs :
                     /\ cur[w].EventType = EventDelete
                     /\ EventClusterName(cur[w]) = name
                     /\ processEvent(w, TRUE)
          /\ \A w \in WorkerIDs :
                 (/\ cur[w].EventType = EventDelete
                  /\ EventClusterName(cur[w]) = name
                  /\ clusters[name].found
                  /\ cur'[w] = NoEvent) =>
                     \/ /\ AbsentFromRegistry(clusters', stopChs', clusterLogs', teamClusters', name)
                        /\ closes'[name] = 1
                        /\ ~processEvent(w, FALSE)
                     \/ /\ UNCHANGED <<clusters, stopChs, clusterLogs, teamClusters, closes>>
                        /\ stopChs[name] = "open"
                        /\ closes[name] = 0
                        /\ ~processEvent(w, TRUE)]_vars

\* a cluster that was registered in a team with another cluster has been
\* deleted with success
C8_Witness ==
    \E name \in Clusters :
        /\ closes[name] = 1
        /\ AbsentFromRegistry(clusters, stopChs, clusterLogs, teamClusters, name)
        /\ \E other \in Clusters : other # name /\ clusters[other].found

\* C9: a panic inside processEvent is recovered by the worker loop: the
\* process is never brought down by it.
C9_PanicRecovered == ~crashed

\* a valid manifest is present
ManifestValid(name) == manifest[name].present /\ ~manifest[name].Error

\* C10: a cluster whose last Create, Update or Sync failed is, while its
\* manifest stays present and valid, eventually processed by a Sync event.
C10_FailedClusterResynced ==
    \A name \in Clusters :
        (clusters[name].found /\ clusters[name].Error /\ ManifestValid(name))
            ~> (\/ ~ManifestValid(name)
                \/ \E w \in WorkerIDs :
                      cur[w].EventType = EventSync /\ EventClusterName(cur[w]) = name)

(***************************************************************************)
(* The rolling update of one cluster.  The pods 1..NumPods belong to       *)
(* cluster 1, which is in the registry; cluster 2 is not.                  *)
(***************************************************************************)
PodCluster == 1
UnknownCluster == 2
\* the pod of the unknown cluster has the name of a pod of the cluster
OrphanPod == 1

PodEvent(clusterName, podName, eventType, role) ==
    [ClusterName |-> clusterName, PodName |-> podName, EventType |-> eventType, role |-> role]

\* a pod labelled master is in the API server
MasterExists == \E p \in Pods : pods[p].status # "gone" /\ pods[p].role = PodRoleMaster

\* the pods of the cluster as a list returns them, from pod i on
RECURSIVE ListPods(_)
ListPods(i) ==
    IF i > NumPods THEN <<>>
    ELSE IF pods[i].status = "gone" THEN ListPods(i + 1)
    ELSE <<[name |-> i, role |-> pods[i].role]>> \o ListPods(i + 1)

\* a subscriber channel that unregisterPodSubscriber has closed: it was made
\* and is no longer in podSubscribers
ChanClosed(ch) == ch < nextCh /\ \A p \in 0..NumPods : podSubscribers[p] # ch

(***************************************************************************)
(* The API server, the stateful set controller and Patroni.  A pod handler *)
(* of the informer sends on Controller.podCh, a channel without a buffer:  *)
(* podCh holds the event of the handler that waits for the dispatcher, and *)
(* the next notification is delivered once the handler has returned.       *)
(***************************************************************************)
\* a pod under deletion is gone: the watcher calls podDelete with the pod
EnvPodDeleted(p) ==
    /\ ~crashed
    /\ podCh = <<>>
    /\ pods[p].status = "terminating"
    /\ pods' = [pods EXCEPT ![p] = [status |-> "gone", role |-> ""]]
    /\ podCh' = Append(podCh, PodEvent(PodCluster, p, EventDelete, pods[p].role))
    /\ UNCHANGED <<auxVars, ctlVars, clusters, crashed, podEvents, podSubscribers, nextCh, senders,
                   rp, deletions, spurious>>

\* the stateful set makes the pod anew, without a role label: podAdd
EnvPodCreated(p) ==
    /\ ~crashed
    /\ podCh = <<>>
    /\ pods[p].status = "gone"
    /\ pods' = [pods EXCEPT ![p] = [status |-> "running", role |-> ""]]
    /\ podCh' = Append(podCh, PodEvent(PodCluster, p, EventAdd, ""))
    /\ UNCHANGED <<auxVars, ctlVars, clusters, crashed, podEvents, podSubscribers, nextCh, senders,
                   rp, deletions, spurious>>

\* Patroni labels a new pod: replica, or master when there is no master: podUpdate
EnvPodLabelled(p, role) ==
    /\ ~crashed
    /\ podCh = <<>>
    /\ pods[p].status = "running"
    /\ pods[p].role = ""
    /\ role = PodRoleMaster => ~MasterExists
    /\ pods' = [pods EXCEPT ![p].role = role]
    /\ podCh' = Append(podCh, PodEvent(PodCluster, p, EventUpdate, role))
    /\ UNCHANGED <<auxVars, ctlVars, clusters, crashed, podEvents, podSubscribers, nextCh, senders,
                   rp, deletions, spurious>>

\* Patroni promotes a replica when there is no master: podUpdate
EnvPodPromoted(p) ==
    /\ ~crashed
    /\ podCh = <<>>
    /\ pods[p].status = "running"
    /\ pods[p].role = PodRoleReplica
    /\ ~MasterExists
    /\ pods' = [pods EXCEPT ![p].role = PodRoleMaster]
    /\ podCh' = Append(podCh, PodEvent(PodCluster, p, EventUpdate, PodRoleMaster))
    /\ UNCHANGED <<auxVars, ctlVars, clusters, crashed, podEvents, podSubscribers, nextCh, senders,
                   rp, deletions, spurious>>

\* an update of a pod of a cluster that is not in the registry: podUpdate
EnvOrphanPodUpdated ==
    /\ ~crashed
    /\ podCh = <<>>
    /\ spurious < MaxSpurious
    /\ spurious' = spurious + 1
    /\ podCh' = Append(podCh, PodEvent(UnknownCluster, OrphanPod, EventUpdate, PodRoleReplica))
    /\ UNCHANGED <<auxVars, ctlVars, clusters, crashed, pods, podEvents, podSubscribers, nextCh,
                   senders, rp, deletions>>

(***************************************************************************)
(* The dispatchers.                                                        *)
(***************************************************************************)
\* Controller.podEventsDispatcher: an event of a cluster of the registry goes
\* to the cluster (ReceivePodEvent, which waits until the channel of the
\* cluster takes the event), any other is dropped
controllerPodEventsDispatcher ==
    /\ ~crashed
    /\ podCh # <<>>
    /\ clusters[Head(podCh).ClusterName].found => podEvents = <<>>
    /\ podCh' = Tail(podCh)
    /\ podEvents' = IF clusters[Head(podCh).ClusterName].found
                    THEN Append(podEvents, Head(podCh)) ELSE podEvents
    /\ UNCHANGED <<auxVars, ctlVars, clusters, crashed, pods, podSubscribers, nextCh, senders, rp,
                   deletions, spurious>>

\* Cluster.podEventsDispatcher: an event of a subscribed pod is handed to a
\* new goroutine that sends it to the subscriber's channel
podEventsDispatcher ==
    /\ ~crashed
    /\ podEvents # <<>>
    /\ podEvents' = Tail(podEvents)
    /\ LET event == Head(podEvents)
           subscriber == podSubscribers[event.PodName]
       IN  senders' = IF subscriber # 0
                      THEN senders \cup {[ch |-> subscriber, event |-> event]}
                      ELSE senders
    /\ UNCHANGED <<auxVars, ctlVars, clusters, crashed, pods, podCh, podSubscribers, nextCh, rp,
                   deletions, spurious>>

\* a goroutine sends on a channel that is closed: a panic nobody recovers
SendOnClosedChannel(s) ==
    /\ ~crashed
    /\ s \in senders
    /\ ChanClosed(s.ch)
    /\ crashed' = TRUE
    /\ UNCHANGED <<auxVars, ctlVars, clusters, podVars>>

(***************************************************************************)
(* recreatePods and recreatePod.                                           *)
(***************************************************************************)
\* the list of the pods; listOk: whether the API server answers the list
recreatePodsList(listOk) ==
    /\ ~crashed
    /\ rp.pc = "idle"
    /\ rp' = IF listOk
             THEN [rp EXCEPT !.pc = "loop", !.listing = ListPods(1), !.idx = 1]
             ELSE [rp EXCEPT !.pc = "done", !.result = "error"]
    /\ UNCHANGED <<auxVars, ctlVars, clusters, crashed, pods, podCh, podEvents, podSubscribers,
                   nextCh, senders, deletions, spurious>>

\* recreatePods with every pod recreated where the list has it
recreatePodsInListOrder(r) ==
    IF r.idx > Len(r.listing)
    THEN [r EXCEPT !.pc = "done", !.result = "ok"]
    ELSE [r EXCEPT !.pc = "register", !.target = r.listing[r.idx].name, !.inMaster = FALSE]

\* one turn of the loop over pods.Items: a master is kept in masterPod for
\* later, any other pod is recreated; after the loop, masterPod is recreated
recreatePodsTurn(r) ==
    IF r.idx > Len(r.listing)
    THEN [r EXCEPT !.pc = "register", !.target = r.masterPod, !.inMaster = TRUE]
    ELSE IF r.listing[r.idx].role = PodRoleMaster
    THEN [r EXCEPT !.masterPod = r.listing[r.idx].name, !.idx = @ + 1]
    ELSE [r EXCEPT !.pc = "register", !.target = r.listing[r.idx].name, !.inMaster = FALSE]

recreatePodsLoop ==
    /\ ~crashed
    /\ rp.pc = "loop"
    /\ rp' = recreatePodsTurn(rp)
    /\ UNCHANGED <<auxVars, ctlVars, clusters, crashed, pods, podCh, podEvents, podSubscribers,
                   nextCh, senders, deletions, spurious>>

registerPodSubscriber ==
    /\ ~crashed
    /\ rp.pc = "register"
    /\ IF podSubscribers[rp.target] # 0
       THEN /\ crashed' = TRUE
            /\ UNCHANGED <<podSubscribers, nextCh, rp>>
       ELSE /\ podSubscribers' = [podSubscribers EXCEPT ![rp.target] = nextCh]
            /\ nextCh' = nextCh + 1
            /\ rp' = [rp EXCEPT !.pc = "delete", !.err = FALSE]
            /\ UNCHANGED crashed
    /\ UNCHANGED <<auxVars, ctlVars, clusters, pods, podCh, podEvents, senders, deletions, spurious>>

\* a recreatePod that returns on a failed Delete without the unregister
recreatePodDeleteNoDefer(apiOk) ==
    /\ ~crashed
    /\ rp.pc = "delete"
    /\ IF rp.target # 0 /\ pods[rp.target].status = "running" /\ apiOk
       THEN /\ pods' = [pods EXCEPT ![rp.target].status = "terminating"]
            /\ deletions' = Append(deletions, rp.target)
            /\ rp' = [rp EXCEPT !.pc = "waitForPodDeletion"]
       ELSE /\ rp' = [rp EXCEPT !.pc = "done", !.err = TRUE, !.result = "error"]
            /\ UNCHANGED <<pods, deletions>>
    /\ UNCHANGED <<auxVars, ctlVars, clusters, crashed, podCh, podEvents, podSubscribers, nextCh,
                   senders, spurious>>

\* KubeClient.Pods.Delete; apiOk: whether the API server accepts the call for
\* a pod it has.  The empty pod has no name to delete.
recreatePodDelete(apiOk) ==
    /\ ~crashed
    /\ rp.pc = "delete"
    /\ IF rp.target # 0 /\ pods[rp.target].status = "running" /\ apiOk
       THEN /\ pods' = [pods EXCEPT ![rp.target].status = "terminating"]
            /\ deletions' = Append(deletions, rp.target)
            /\ rp' = [rp EXCEPT !.pc = "waitForPodDeletion"]
       ELSE /\ rp' = [rp EXCEPT !.pc = "unregister", !.err = TRUE]
            /\ UNCHANGED <<pods, deletions>>
    /\ UNCHANGED <<auxVars, ctlVars, clusters, crashed, podCh, podEvents, podSubscribers, nextCh,
                   senders, spurious>>

\* waitForPodDeletion receives one event
waitForPodDeletion(s) ==
    /\ ~crashed
    /\ rp.pc = "waitForPodDeletion"
    /\ s \in senders
    /\ s.ch = podSubscribers[rp.target]
    /\ senders' = senders \ {s}
    /\ rp' = IF s.event.EventType = EventDelete
             THEN [rp EXCEPT !.pc = "waitForPodLabel"] ELSE rp
    /\ UNCHANGED <<auxVars, ctlVars, clusters, crashed, pods, podCh, podEvents, podSubscribers,
                   nextCh, deletions, spurious>>

\* waitForPodLabel receives one event
waitForPodLabel(s) ==
    /\ ~crashed
    /\ rp.pc = "waitForPodLabel"
    /\ s \in senders
    /\ s.ch = podSubscribers[rp.target]
    /\ senders' = senders \ {s}
    /\ rp' = IF s.event.role = PodRoleMaster \/ s.event.role = PodRoleReplica
             THEN [rp EXCEPT !.pc = "unregister"] ELSE rp
    /\ UNCHANGED <<auxVars, ctlVars, clusters, crashed, pods, podCh, podEvents, podSubscribers,
                   nextCh, deletions, spurious>>

\* the timeout of either wait
waitTimeout ==
    /\ ~crashed
    /\ rp.pc \in {"waitForPodDeletion", "waitForPodLabel"}
    /\ rp' = [rp EXCEPT !.pc = "unregister", !.err = TRUE]
    /\ UNCHANGED <<auxVars, ctlVars, clusters, crashed, pods, podCh, podEvents, podSubscribers,
                   nextCh, senders, deletions, spurious>>

\* recreatePods going on after a recreatePod that returned an error
AfterRecreatePodIgnoringError(r) ==
    IF r.inMaster THEN [r EXCEPT !.pc = "done", !.result = "ok"]
    ELSE [r EXCEPT !.pc = "loop", !.idx = @ + 1]

\* what recreatePods does with the return of recreatePod
AfterRecreatePod(r) ==
    IF r.err THEN [r EXCEPT !.pc = "done", !.result = "error"]
    ELSE IF r.inMaster THEN [r EXCEPT !.pc = "done", !.result = "ok"]
    ELSE [r EXCEPT !.pc = "loop", !.idx = @ + 1]

\* the deferred unregisterPodSubscriber, and the return of recreatePod
unregisterPodSubscriber ==
    /\ ~crashed
    /\ rp.pc = "unregister"
    /\ IF podSubscribers[rp.target] = 0
       THEN /\ crashed' = TRUE
            /\ UNCHANGED <<podSubscribers, rp>>
       ELSE /\ podSubscribers' = [podSubscribers EXCEPT ![rp.target] = 0]
            /\ rp' = AfterRecreatePod(rp)
            /\ UNCHANGED crashed
    /\ UNCHANGED <<auxVars, ctlVars, clusters, pods, podCh, podEvents, nextCh, senders, deletions,
                   spurious>>

\* the cluster of the pods is in the registry; the role labels are any
PodInit ==
    /\ AuxIdle
    /\ manifest = [c \in Clusters |-> NoManifest]
    /\ queues = [w \in WorkerIDs |-> <<>>]
    /\ cur = [w \in WorkerIDs |-> NoEvent]
    /\ clusters = [c \in Clusters |-> IF c = PodCluster THEN [found |-> TRUE, Error |-> FALSE]
                                      ELSE NoCluster]
    /\ stopChs = [c \in Clusters |-> IF c = PodCluster THEN "open" ELSE "none"]
    /\ clusterLogs = {PodCluster}
    /\ teamClusters = [t \in Teams |-> IF t = TeamOf(PodCluster) THEN <<PodCluster>> ELSE <<>>]
    /\ crashed = FALSE
    /\ elapsed = ResyncPeriod + 1
    /\ sinceTick = 0
    /\ ops = 0
    /\ arrival = [w \in WorkerIDs |-> <<>>]
    /\ closes = [c \in Clusters |-> 0]
    /\ run = NoRun
    /\ pods \in [Pods -> {[status |-> "running", role |-> PodRoleMaster],
                          [status |-> "running", role |-> PodRoleReplica]}]
    /\ podCh = <<>>
    /\ podEvents = <<>>
    /\ podSubscribers = [p \in 0..NumPods |-> 0]
    /\ nextCh = 1
    /\ senders = {}
    /\ rp = NoRollingUpdate
    /\ deletions = <<>>
    /\ spurious = 0

PodNext ==
    \/ \E p \in Pods : EnvPodDeleted(p)
    \/ \E p \in Pods : EnvPodCreated(p)
    \/ \E p \in Pods, role \in {PodRoleMaster, PodRoleReplica} : EnvPodLabelled(p, role)
    \/ \E p \in Pods : EnvPodPromoted(p)
    \/ EnvOrphanPodUpdated
    \/ controllerPodEventsDispatcher
    \/ podEventsDispatcher
    \/ \E s \in senders : SendOnClosedChannel(s)
    \/ \E listOk \in BOOLEAN : recreatePodsList(listOk)
    \/ recreatePodsLoop
    \/ registerPodSubscriber
    \/ \E apiOk \in BOOLEAN : recreatePodDelete(apiOk)
    \/ \E s \in senders : waitForPodDeletion(s)
    \/ \E s \in senders : waitForPodLabel(s)
    \/ waitTimeout
    \/ unregisterPodSubscriber

PodSpec == PodInit /\ [][PodNext]_vars

(***************************************************************************)
(* Properties of the rolling update, checked under PodSpec.                *)
(***************************************************************************)
\* the places of the list of the rolling update that hold a master
ListedMasters == {i \in 1..Len(rp.listing) : rp.listing[i].role = PodRoleMaster}

\* the pods that carry the master label now
LabelledMasters == {p \in Pods : pods[p].status # "gone" /\ pods[p].role = PodRoleMaster}

C4_MasterDeletedAfterFailover ==
    \A p \in Pods :
        (pods[p].status = "terminating" /\ pods[p].role = PodRoleMaster) =>
            \E q \in Pods \ {p} : pods[q].status = "running" /\ pods[q].role = PodRoleMaster

\* C5: a rolling update whose list holds two masters returns an error.
C5_TwoMastersIsError ==
    (Cardinality(ListedMasters) >= 2 /\ rp.pc = "done") => rp.result = "error"

\* C6: no goroutine sends on a subscriber channel that
\* unregisterPodSubscriber has closed, and no pod event ends in a panic.
C6_NoSendOnClosedChannel ==
    /\ ~crashed
    /\ \A s \in senders : ~ChanClosed(s.ch)

(***************************************************************************)
(* Properties of the resync ticker and of the upgrade of Update to Sync,   *)
(* checked under Spec.                                                     *)
(***************************************************************************)
\* a Sync event that carries the manifest of a cluster as it is now is
\* pending in some queue of the given queues
SyncPending(state_queues, name) ==
    \E w \in WorkerIDs : \E i \in 1..Len(state_queues[w]) :
        /\ state_queues[w][i].EventType = EventSync
        /\ state_queues[w][i].NewSpec = PgOf(name)

\* C11: every tick of the resync ticker leaves a Sync event pending for every
\* cluster whose (valid) manifest the list returns.
C11_TickSyncsEveryCluster ==
    [][(sinceTick = ResyncPeriod /\ sinceTick' = 0) =>
          \A name \in Clusters : ManifestValid(name) => SyncPending(queues', name)]_vars

\* C12: no Update event is processed as an Update for a cluster whose
\* previous Create, Update or Sync ended with an error (cl.Error is set).
C12_UpdateAfterErrorIsSync ==
    \A w \in WorkerIDs :
        cur[w].EventType = EventUpdate =>
            ~(clusters[EventClusterName(cur[w])].found /\ clusters[EventClusterName(cur[w])].Error)

(***************************************************************************)
(* The node watcher.                                                       *)
(***************************************************************************)
NumNodes == 1
Nodes == 1..NumNodes

\* the controller and the pods at rest, for the studies that do not run them
ControllerIdle ==
    /\ manifest = [c \in Clusters |-> NoManifest]
    /\ queues = [w \in WorkerIDs |-> <<>>]
    /\ cur = [w \in WorkerIDs |-> NoEvent]
    /\ clusters = [c \in Clusters |-> NoCluster]
    /\ stopChs = [c \in Clusters |-> "none"]
    /\ clusterLogs = {}
    /\ teamClusters = [t \in Teams |-> <<>>]
    /\ crashed = FALSE
    /\ elapsed = ResyncPeriod + 1
    /\ sinceTick = 0
    /\ ops = 0
    /\ arrival = [w \in WorkerIDs |-> <<>>]
    /\ closes = [c \in Clusters |-> 0]
    /\ run = NoRun
    /\ pods = [p \in Pods |-> [status |-> "running", role |-> "replica"]]
    /\ podCh = <<>>
    /\ podEvents = <<>>
    /\ podSubscribers = [p \in 0..NumPods |-> 0]
    /\ nextCh = 1
    /\ senders = {}
    /\ rp = NoRollingUpdate
    /\ deletions = <<>>
    /\ spurious = 0

\* the label maps of a node: any of the keys, each with one of its values
LabelKeys == {"master", "lifecycle-status"}
LabelValues == {"true", "false", "ready"}
LabelMaps == UNION {[ks -> LabelValues] : ks \in SUBSET LabelKeys}

\* the objects a node can be
NodeObjects == [Unschedulable : BOOLEAN, Labels : LabelMaps]

\* util.MapContains: every key of the needle is in the haystack with the
\* same value
MapContains(haystack, needle) ==
    \A k \in DOMAIN needle : k \in DOMAIN haystack /\ haystack[k] = needle[k]

MasterLabel == [k \in {"master"} |-> "true"]

\* a node update that moves the pods whenever the node is cordoned
nodeUpdateMovesOnCordon(nodePrev, nodeCur) ==
    /\ ~MapContains(nodeCur.Labels, MasterLabel)
    /\ ~nodePrev.Unschedulable
    /\ nodeCur.Unschedulable
    /\ ~MapContains(nodeCur.Labels, nodeReadinessLabel)

\* whether nodeUpdate goes on to movePodsOffNode(nodeCur)
nodeUpdateMoves(nodePrev, nodeCur) ==
    IF MapContains(nodeCur.Labels, MasterLabel) THEN FALSE
    ELSE IF \/ (nodePrev.Unschedulable /\ ~MapContains(nodePrev.Labels, nodeReadinessLabel))
            \/ ~nodeCur.Unschedulable
            \/ MapContains(nodeCur.Labels, nodeReadinessLabel)
    THEN FALSE
    ELSE TRUE

\* the API server changes a node (or the informer resyncs it) and the
\* informer calls nodeUpdate(prev, cur)
nodeUpdate(n, nodeCur) ==
    /\ nodes' = [nodes EXCEPT ![n] = nodeCur]
    /\ nodeEvent' = [node |-> n, prev |-> nodes[n], cur |-> nodeCur,
                     moved |-> nodeUpdateMoves(nodes[n], nodeCur)]
    /\ UNCHANGED <<ctlVars, clusters, crashed, podVars, nodeReadinessLabel, call, ret>>

NodeInit ==
    /\ ControllerIdle
    /\ nodes \in [Nodes -> NodeObjects]
    /\ nodeReadinessLabel \in {<<>>, [k \in {"lifecycle-status"} |-> "ready"]}
    /\ nodeEvent = NoNodeEvent
    /\ call = NoCall
    /\ ret = NoReturn

NodeNext == \E n \in Nodes, nodeCur \in NodeObjects : nodeUpdate(n, nodeCur)

NodeSpec == NodeInit /\ [][NodeNext]_vars

\* the last call of nodeUpdate
NodeUpdateCalled == nodeEvent.node # 0

\* C13 as stated: nodeUpdate moves the pods exactly when the node was
\* schedulable before, is unschedulable now and does not carry the readiness
\* label now, the nodes labelled master:true apart.
C13_MovesExactlyOnCordon ==
    NodeUpdateCalled =>
        (nodeEvent.moved <=>
            /\ ~MapContains(nodeEvent.cur.Labels, MasterLabel)
            /\ ~nodeEvent.prev.Unschedulable
            /\ nodeEvent.cur.Unschedulable
            /\ ~MapContains(nodeEvent.cur.Labels, nodeReadinessLabel))

\* C13, amended: nodeUpdate moves the pods exactly when the node is now
\* unschedulable without the readiness label and was not so before (it was
\* schedulable or carried the readiness label); it never moves the pods of a
\* node labelled master:true.
C13_MovesOnTransition ==
    NodeUpdateCalled =>
        /\ nodeEvent.moved <=>
              /\ ~MapContains(nodeEvent.cur.Labels, MasterLabel)
              /\ nodeEvent.cur.Unschedulable
              /\ ~MapContains(nodeEvent.cur.Labels, nodeReadinessLabel)
              /\ ~(/\ nodeEvent.prev.Unschedulable
                   /\ ~MapContains(nodeEvent.prev.Labels, nodeReadinessLabel))
        /\ MapContains(nodeEvent.cur.Labels, MasterLabel) => ~nodeEvent.moved

\* nodeUpdate has moved the pods of a node that was unschedulable before
\* and has lost its readiness label
C13_Witness ==
    /\ NodeUpdateCalled
    /\ nodeEvent.moved
    /\ nodeEvent.prev.Unschedulable
    /\ nodeEvent.cur.Unschedulable

(***************************************************************************)
(* getNumberOfInstances.                                                   *)
(***************************************************************************)
\* the largest min_instances, max_instances of the study; the manifest's
\* numberOfInstances goes one beyond it
MaxInstanceLimit == 3
InstanceLimits == (-1)..MaxInstanceLimit
InstanceCounts == (-2)..(MaxInstanceLimit + 1)

\* getNumberOfInstances with the limits applied in the other order
getNumberOfInstancesMinFirst(min, max, numberOfInstances) ==
    LET newcur1 == IF min >= 0 /\ numberOfInstances < min THEN min ELSE numberOfInstances
    IN  IF max >= 0 /\ newcur1 > max THEN max ELSE newcur1

\* newcur of getNumberOfInstances for c.OpConfig.MinInstances,
\* c.OpConfig.MaxInstanceLimit and spec.NumberOfInstances
getNumberOfInstances(min, max, numberOfInstances) ==
    LET newcur1 == IF max >= 0 /\ numberOfInstances > max THEN max ELSE numberOfInstances
    IN  IF min >= 0 /\ newcur1 < min THEN min ELSE newcur1

InstancesInit ==
    /\ ControllerIdle
    /\ nodes = NoNodes
    /\ nodeReadinessLabel = <<>>
    /\ nodeEvent = NoNodeEvent
    /\ call \in [op : {"getNumberOfInstances"}, min : InstanceLimits, max : InstanceLimits,
                 cur : InstanceCounts]
    /\ ret = NoReturn

InstancesCall ==
    /\ ret = NoReturn
    /\ ret' = [op |-> "getNumberOfInstances",
               newcur |-> getNumberOfInstances(call.min, call.max, call.cur)]
    /\ UNCHANGED <<ctlVars, clusters, crashed, podVars, nodes, nodeReadinessLabel, nodeEvent, call>>

InstancesNext == InstancesCall

InstancesSpec == InstancesInit /\ [][InstancesNext]_vars

\* C14 as stated: for every number of instances and every pair of limits, the result
\* is never below an enabled min_instances and never above an enabled
\* max_instances, and it is the number given when that number is within the
\* enabled limits.
C14_ClampedToLimits ==
    ret # NoReturn =>
        /\ call.min >= 0 => ret.newcur >= call.min
        /\ call.max >= 0 => ret.newcur <= call.max
        /\ ((call.min >= 0 => call.cur >= call.min) /\ (call.max >= 0 => call.cur <= call.max))
               => ret.newcur = call.cur

\* C14, amended: the result is never below an enabled min_instances; it is
\* never above an enabled max_instances unless min_instances is enabled and
\* larger than max_instances, in which case the result is at least
\* min_instances; a number within the enabled limits is returned as it is, a
\* number below an enabled min_instances becomes min_instances, and a number
\* above an enabled max_instances that is not below min_instances becomes
\* max_instances.
C14_ClampedMinWins ==
    ret # NoReturn =>
        /\ call.min >= 0 => ret.newcur >= call.min
        /\ (call.max >= 0 /\ call.min <= call.max) => ret.newcur <= call.max
        /\ ((call.min >= 0 => call.cur >= call.min) /\ (call.max >= 0 => call.cur <= call.max))
               => ret.newcur = call.cur
        /\ (call.min >= 0 /\ call.cur < call.min) => ret.newcur = call.min
        /\ (call.max >= 0 /\ call.cur > call.max /\ call.min <= call.max)
               => ret.newcur = call.max

\* getNumberOfInstances has returned for a min_instances above an enabled
\* max_instances
C14_Witness ==
    /\ ret # NoReturn
    /\ call.max >= 0
    /\ call.min > call.max
    /\ ret.newcur = call.min
    /\ ret.newcur # call.cur

(***************************************************************************)
(* normalizeUserFlags.  A string is the sequence of its characters.        *)
(***************************************************************************)
\* the longest list of user flags of the study
MaxFlags == 3

LowerLetters == <<"a", "b", "c", "d", "e", "f", "g", "h", "i", "j", "k", "l", "m", "n", "o", "p", "q", "r", "s", "t", "u", "v", "w", "x", "y", "z">>
UpperLetters == <<"A", "B", "C", "D", "E", "F", "G", "H", "I", "J", "K", "L", "M", "N", "O", "P", "Q", "R", "S", "T", "U", "V", "W", "X", "Y", "Z">>
Digits == {"0", "1", "2", "3", "4", "5", "6", "7", "8", "9"}

IsLetter(ch) == \E i \in 1..26 : LowerLetters[i] = ch \/ UpperLetters[i] = ch

\* strings.ToUpper for one character: a lower-case letter becomes its
\* upper-case letter, any other character stays
ToUpperChar(ch) ==
    IF \E i \in 1..26 : LowerLetters[i] = ch
    THEN UpperLetters[CHOOSE i \in 1..26 : LowerLetters[i] = ch]
    ELSE ch

\* strings.ToUpper
ToUpper(str) == [i \in 1..Len(str) |-> ToUpperChar(str[i])]

\* alphaNumericRegexp.MatchString: letters and digits only, at least one
MatchAlphaNumeric(str) ==
    /\ Len(str) > 0
    /\ \A i \in 1..Len(str) : IsLetter(str[i]) \/ str[i] \in Digits

RoleFlagSuperuser == <<"S", "U", "P", "E", "R", "U", "S", "E", "R">>
RoleFlagInherit == <<"I", "N", "H", "E", "R", "I", "T">>
RoleFlagLogin == <<"L", "O", "G", "I", "N">>
RoleFlagNoLogin == <<"N", "O", "L", "O", "G", "I", "N">>
RoleFlagCreateRole == <<"C", "R", "E", "A", "T", "E", "R", "O", "L", "E">>
RoleFlagCreateDB == <<"C", "R", "E", "A", "T", "E", "D", "B">>
RoleFlagReplication == <<"R", "E", "P", "L", "I", "C", "A", "T", "I", "O", "N">>
RoleFlagByPassRLS == <<"B", "Y", "P", "A", "S", "S", "R", "L", "S">>

\* the flags isValidFlag ranges over
ValidFlags == {RoleFlagSuperuser, RoleFlagLogin, RoleFlagCreateDB, RoleFlagInherit,
               RoleFlagReplication, RoleFlagByPassRLS}

isValidFlag(flag) ==
    \E validFlag \in ValidFlags : flag = validFlag \/ flag = <<"N", "O">> \o validFlag

\* an inversion that only ever puts NO in front
invertFlagPrepend(flag) == <<"N", "O">> \o flag

invertFlag(flag) ==
    IF SubSeq(flag, 1, 2) = <<"N", "O">>
    THEN SubSeq(flag, 3, Len(flag))
    ELSE <<"N", "O">> \o flag

\* the first loop of normalizeUserFlags from flag i on: the error it returns
\* with the flags the message quotes, or the keys of uniqueFlags
RECURSIVE normalizeLoop(_, _, _)
normalizeLoop(userFlags, i, uniqueFlags) ==
    IF i > Len(userFlags)
    THEN [err |-> "none", quoted |-> <<>>, uniqueFlags |-> uniqueFlags]
    ELSE IF ~MatchAlphaNumeric(userFlags[i])
    THEN [err |-> "is not alphanumeric", quoted |-> <<userFlags[i]>>, uniqueFlags |-> {}]
    ELSE LET flag == ToUpper(userFlags[i])
         IN  IF flag \in uniqueFlags
             THEN normalizeLoop(userFlags, i + 1, uniqueFlags)
             ELSE IF ~isValidFlag(flag)
             THEN [err |-> "is not valid", quoted |-> <<flag>>, uniqueFlags |-> {}]
             ELSE IF invertFlag(flag) \in uniqueFlags
             THEN [err |-> "conflicting user flags", quoted |-> <<flag, invertFlag(flag)>>,
                   uniqueFlags |-> {}]
             ELSE normalizeLoop(userFlags, i + 1, uniqueFlags \cup {flag})

\* a second loop that keeps NOLOGIN among the flags
keptFlagsWithNoLogin(uniqueFlags) == uniqueFlags

\* the keys the second loop of normalizeUserFlags appends to flags
keptFlags(uniqueFlags) == uniqueFlags \ {RoleFlagNoLogin}

\* addLogin after the second loop
addLogin(uniqueFlags) == RoleFlagNoLogin \notin uniqueFlags /\ RoleFlagLogin \notin uniqueFlags

\* the orders in which a range over a map can visit a set of keys
Orderings(keys) ==
    {order \in [1..Cardinality(keys) -> keys] :
        \A i, j \in 1..Cardinality(keys) : order[i] = order[j] => i = j}

\* what normalizeUserFlags can return: on an error no flags; otherwise the
\* kept keys in any order of the map, then LOGIN if addLogin
normalizeUserFlags(userFlags) ==
    LET r == normalizeLoop(userFlags, 1, {})
    IN  IF r.err # "none"
        THEN {[err |-> r.err, quoted |-> r.quoted, flags |-> <<>>]}
        ELSE {[err |-> "none", quoted |-> <<>>,
               flags |-> order \o (IF addLogin(r.uniqueFlags) THEN <<RoleFlagLogin>> ELSE <<>>)] :
                  order \in Orderings(keptFlags(r.uniqueFlags))}

\* the flags of the study, as a manifest can spell them
FlagInputs ==
    {<<"s", "u", "p", "e", "r", "u", "s", "e", "r">>, <<"c", "r", "e", "a", "t", "e", "d", "b">>,
     <<"l", "o", "g", "i", "n">>, <<"N", "o", "L", "o", "g", "i", "n">>,
     <<"i", "n", "h", "e", "r", "i", "t">>, <<"n", "o", "i", "n", "h", "e", "r", "i", "t">>,
     <<"L", "O", "G", "I", "N">>, <<"c", "r", "e", "a", "t", "e", "r", "o", "l", "e">>,
     <<"!", "s", "u", "p", "e", "r", "u", "s", "e", "r">>, <<"s", "u", "p", "e", "r", "u", "s", "e", "r", "1">>}

\* the lists of at most n flags
RECURSIVE FlagLists(_)
FlagLists(n) ==
    IF n = 0 THEN {<<>>}
    ELSE FlagLists(n - 1) \cup
         {Append(l, f) : l \in {x \in FlagLists(n - 1) : Len(x) = n - 1}, f \in FlagInputs}

FlagsInit ==
    /\ ControllerIdle
    /\ nodes = NoNodes
    /\ nodeReadinessLabel = <<>>
    /\ nodeEvent = NoNodeEvent
    /\ call \in [op : {"normalizeUserFlags"}, userFlags : FlagLists(MaxFlags)]
    /\ ret = NoReturn

FlagsCall ==
    /\ ret = NoReturn
    /\ \E r \in normalizeUserFlags(call.userFlags) :
           ret' = [op |-> "normalizeUserFlags", err |-> r.err, quoted |-> r.quoted,
                   flags |-> r.flags]
    /\ UNCHANGED <<ctlVars, clusters, crashed, podVars, nodes, nodeReadinessLabel, nodeEvent, call>>

FlagsNext == FlagsCall

FlagsSpec == FlagsInit /\ [][FlagsNext]_vars

\* the flags of a list, upper-cased
UpperFlags(userFlags) == {ToUpper(userFlags[i]) : i \in 1..Len(userFlags)}

\* the flags a returned list holds
ReturnedFlags == {ret.flags[i] : i \in 1..Len(ret.flags)}

\* C15: for an accepted list, normalizeUserFlags returns every distinct flag
\* exactly once in upper case, with LOGIN added when neither LOGIN nor
\* NOLOGIN was given, and never NOLOGIN; [superuser, createdb] gives exactly
\* the set {CREATEDB, LOGIN, SUPERUSER}.
C15_NormalizedFlags ==
    (ret # NoReturn /\ ret.err = "none") =>
        /\ Cardinality(ReturnedFlags) = Len(ret.flags)
        /\ \A flag \in ReturnedFlags :
               \A i \in 1..Len(flag) : \A j \in 1..26 : flag[i] # LowerLetters[j]
        /\ RoleFlagNoLogin \notin ReturnedFlags
        /\ \A flag \in UpperFlags(call.userFlags) :
               flag # RoleFlagNoLogin => flag \in ReturnedFlags
        /\ \A flag \in ReturnedFlags :
               flag \in UpperFlags(call.userFlags) \/ flag = RoleFlagLogin
        /\ RoleFlagLogin \in ReturnedFlags <=>
               RoleFlagNoLogin \notin UpperFlags(call.userFlags)
        /\ call.userFlags = <<<<"s", "u", "p", "e", "r", "u", "s", "e", "r">>, <<"c", "r", "e", "a", "t", "e", "d", "b">>>> =>
               ReturnedFlags = {RoleFlagCreateDB, RoleFlagLogin, RoleFlagSuperuser}

\* [createdb, NoLogin, createdb] was accepted: one CREATEDB, neither NOLOGIN
\* nor LOGIN
C15_Witness ==
    /\ ret # NoReturn
    /\ ret.err = "none"
    /\ call.userFlags = <<<<"c", "r", "e", "a", "t", "e", "d", "b">>, <<"N", "o", "L", "o", "g", "i", "n">>, <<"c", "r", "e", "a", "t", "e", "d", "b">>>>
    /\ ret.flags = <<RoleFlagCreateDB>>

\* C16: normalizeUserFlags returns an error, and no flags, exactly when some
\* flag is not alphanumeric, or its upper case is neither a role flag of
\* isValidFlag nor the NO-form of one, or the list holds a flag and its
\* NO-form in either order; the error of a conflict quotes both flags.
C16_ErrorExactlyWhenInvalid ==
    ret # NoReturn =>
        /\ ret.err # "none" <=>
               \/ \E i \in 1..Len(call.userFlags) :
                      \E k \in 1..Len(call.userFlags[i]) :
                          ~IsLetter(call.userFlags[i][k]) /\ call.userFlags[i][k] \notin Digits
               \/ \E flag \in UpperFlags(call.userFlags) :
                      \A validFlag \in ValidFlags :
                          flag # validFlag /\ flag # <<"N", "O">> \o validFlag
               \/ \E validFlag \in ValidFlags :
                      /\ validFlag \in UpperFlags(call.userFlags)
                      /\ <<"N", "O">> \o validFlag \in UpperFlags(call.userFlags)
        /\ ret.err # "none" => ret.flags = <<>>
        /\ ret.err = "conflicting user flags" =>
               \E validFlag \in ValidFlags :
                   /\ {ret.quoted[i] : i \in 1..Len(ret.quoted)} =
                          {validFlag, <<"N", "O">> \o validFlag}
                   /\ validFlag \in UpperFlags(call.userFlags)
                   /\ <<"N", "O">> \o validFlag \in UpperFlags(call.userFlags)

\* [inherit, noinherit] was refused as a conflict that quotes NOINHERIT and
\* INHERIT
C16_Witness ==
    /\ ret # NoReturn
    /\ call.userFlags = <<<<"i", "n", "h", "e", "r", "i", "t">>, <<"n", "o", "i", "n", "h", "e", "r", "i", "t">>>>
    /\ ret.err = "conflicting user flags"
    /\ ret.quoted = <<<<"N", "O">> \o RoleFlagInherit, RoleFlagInherit>>
    /\ ret.flags = <<>>

(***************************************************************************)
(* initRobotUsers and initHumanUsers.  pgUsers maps a role name to the     *)
(* role; Origin records where the role came from.                          *)
(***************************************************************************)
\* the configuration of the cluster of the tests
SuperUsername == "postgres"
ReplicationUsername == "standby"
ProtectedRoles == {"admin"}
PamRoleName == "zalandos"

RoleOriginInfrastructure == "infrastructure"
RoleOriginManifest == "manifest"
RoleOriginTeamsAPI == "teamsAPI"

\* the names of the study
InfraNames == {"foo", "bar"}
ManifestNames == {"foo", "admin", "postgres"}
TeamNames == {"foo", "bar", "admin", "standby"}
InvalidUsername == "!fooBar"

\* the flag lists a manifest user of the study has
GoodUserFlags == <<<<"s", "u", "p", "e", "r", "u", "s", "e", "r">>, <<"c", "r", "e", "a", "t", "e", "d", "b">>>>
BadUserFlags == <<<<"i", "n", "h", "e", "r", "i", "t">>, <<"n", "o", "i", "n", "h", "e", "r", "i", "t">>>>

\* userRegexp.MatchString
isValidUsername(username) == username # InvalidUsername

\* a test that lets the protected roles pass
shouldAvoidSystemRole(username) ==
    username = SuperUsername \/ username = ReplicationUsername

\* whether a manifest user or team member of this name is left out
shouldAvoidProtectedOrSystemRole(username) ==
    \/ username = SuperUsername
    \/ username = ReplicationUsername
    \/ username \in ProtectedRoles

\* the set of the flags normalizeUserFlags returns without error
NormalizedFlagSet(userFlags) ==
    LET r == CHOOSE x \in normalizeUserFlags(userFlags) : TRUE
    IN  {r.flags[i] : i \in 1..Len(r.flags)}

\* a map with one more entry
MapPut(m, k, v) == [x \in DOMAIN m \cup {k} |-> IF x = k THEN v ELSE m[x]]

\* the role initRobotUsers stores for a manifest user: a role already in
\* pgUsers keeps its name and password and takes the flags of the manifest
robotRole(users, username, flags) ==
    IF username \in DOMAIN users
    THEN [users[username] EXCEPT !.Flags = flags]
    ELSE [Name |-> username, Password |-> "random", Flags |-> flags, MemberOf |-> {},
          Origin |-> RoleOriginManifest]

\* initRobotUsers over the manifest users in the order a range over the map
\* visits them, from user i on: the error and pgUsers
RECURSIVE initRobotUsers(_, _, _, _)
initRobotUsers(users, manifestUsers, order, i) ==
    IF i > Len(order) THEN [err |-> "none", pgUsers |-> users]
    ELSE LET username == order[i]
         IN  IF ~isValidUsername(username)
             THEN [err |-> "invalid username", pgUsers |-> users]
             ELSE IF shouldAvoidProtectedOrSystemRole(username)
             THEN initRobotUsers(users, manifestUsers, order, i + 1)
             ELSE IF \E r \in normalizeUserFlags(manifestUsers[username]) : r.err # "none"
             THEN [err |-> "invalid flags for user", pgUsers |-> users]
             ELSE initRobotUsers(
                      MapPut(users, username,
                             robotRole(users, username,
                                       NormalizedFlagSet(manifestUsers[username]))),
                      manifestUsers, order, i + 1)

\* a team member that replaces whatever role has its name
humanRoleOverwriting(users, username) ==
    [Name |-> username, Password |-> "", Flags |-> {RoleFlagLogin, RoleFlagSuperuser},
     MemberOf |-> {PamRoleName}, Origin |-> RoleOriginTeamsAPI]

\* the role initHumanUsers stores for a team member: a role of the
\* infrastructure or of the manifest stays, any other is replaced
humanRole(users, username) ==
    IF /\ username \in DOMAIN users
       /\ users[username].Origin \in {RoleOriginInfrastructure, RoleOriginManifest}
    THEN users[username]
    ELSE [Name |-> username, Password |-> "", Flags |-> {RoleFlagLogin, RoleFlagSuperuser},
          MemberOf |-> {PamRoleName}, Origin |-> RoleOriginTeamsAPI]

\* initHumanUsers over the team members, from member i on
RECURSIVE initHumanUsers(_, _, _)
initHumanUsers(users, teamMembers, i) ==
    IF i > Len(teamMembers) THEN users
    ELSE IF shouldAvoidProtectedOrSystemRole(teamMembers[i])
    THEN initHumanUsers(users, teamMembers, i + 1)
    ELSE initHumanUsers(MapPut(users, teamMembers[i], humanRole(users, teamMembers[i])),
                        teamMembers, i + 1)

\* the infrastructure roles of a set of names
InfraRoles(names) ==
    [n \in names |-> [Name |-> n, Password |-> "bar", Flags |-> {}, MemberOf |-> {},
                      Origin |-> RoleOriginInfrastructure]]

\* the manifests of the study: any of the names, each with good or bad flags
ManifestUsers ==
    UNION {[ns -> {GoodUserFlags, BadUserFlags}] : ns \in SUBSET (ManifestNames \cup {InvalidUsername})}

UsersInit ==
    /\ ControllerIdle
    /\ nodes = NoNodes
    /\ nodeReadinessLabel = <<>>
    /\ nodeEvent = NoNodeEvent
    /\ \E infra \in SUBSET InfraNames, manifestUsers \in ManifestUsers,
          team \in SUBSET TeamNames :
           /\ call = [op |-> "initUsers", manifestUsers |-> manifestUsers,
                      teamMembers |-> team]
           /\ ret = [step |-> "infrastructure", err |-> "none", pgUsers |-> InfraRoles(infra),
                     infra |-> InfraRoles(infra), robot |-> InfraRoles(infra)]

\* initRobotUsers; the range over the manifest users takes any order
UsersRobot ==
    /\ ret.step = "infrastructure"
    /\ \E order \in Orderings(DOMAIN call.manifestUsers) :
           LET r == initRobotUsers(ret.pgUsers, call.manifestUsers, order, 1)
           IN  ret' = [ret EXCEPT !.step = IF r.err = "none" THEN "robot" ELSE "failed",
                                  !.err = r.err, !.pgUsers = r.pgUsers, !.robot = r.pgUsers]
    /\ UNCHANGED <<ctlVars, clusters, crashed, podVars, nodes, nodeReadinessLabel, nodeEvent, call>>

\* initHumanUsers; the team members come as a list in any order
UsersHuman ==
    /\ ret.step = "robot"
    /\ \E teamMembers \in Orderings(call.teamMembers) :
           ret' = [ret EXCEPT !.step = "human",
                              !.pgUsers = initHumanUsers(ret.pgUsers, teamMembers, 1)]
    /\ UNCHANGED <<ctlVars, clusters, crashed, podVars, nodes, nodeReadinessLabel, nodeEvent, call>>

UsersNext == UsersRobot \/ UsersHuman

UsersSpec == UsersInit /\ [][UsersNext]_vars

\* the names no manifest user and no team member may take
ReservedNames == {SuperUsername, ReplicationUsername} \cup ProtectedRoles

\* the manifest user is one initRobotUsers has to refuse with an error
RefusedManifestUser(username) ==
    \/ username = InvalidUsername
    \/ username \notin ReservedNames /\ call.manifestUsers[username] = BadUserFlags

\* C17: initRobotUsers and initHumanUsers never add a role named as the
\* super user, the replication user or a protected role; such a manifest
\* user or team member is left out without an error, and the other users
\* and members are added as usual.
C17_ReservedNamesDropped ==
    call.op = "initUsers" =>
        /\ DOMAIN ret.pgUsers \cap ReservedNames = {}
        /\ ret.step = "failed" => \E n \in DOMAIN call.manifestUsers : RefusedManifestUser(n)
        /\ ret.step \in {"robot", "human"} =>
               /\ ret.err = "none"
               /\ \A n \in DOMAIN call.manifestUsers \ ReservedNames :
                      /\ n \in DOMAIN ret.robot
                      /\ ret.robot[n].Flags = {RoleFlagSuperuser, RoleFlagCreateDB, RoleFlagLogin}
        /\ ret.step = "human" =>
               \A n \in call.teamMembers \ ReservedNames : n \in DOMAIN ret.pgUsers

\* a manifest with a protected role and the super user, a team with the
\* replication user and a protected role, all dropped, the others added
C17_Witness ==
    /\ call.op = "initUsers"
    /\ ret.step = "human"
    /\ DOMAIN call.manifestUsers = {"foo", "admin", "postgres"}
    /\ call.manifestUsers["admin"] = BadUserFlags
    /\ call.teamMembers = {"bar", "admin", "standby"}
    /\ DOMAIN ret.infra = {}
    /\ DOMAIN ret.pgUsers = {"foo", "bar"}

localHost == "127.0.0.1/32"
Master == "master"
Replica == "replica"
NilSlice == [isNil |-> TRUE, items |-> <<>>]
Slice(items) == [isNil |-> FALSE, items |-> items]

\* *bool fields of the manifest: nil, or a pointer to a value
NilBool == "nil"
OptionalBools == {NilBool, "true", "false"}

\* the manifests and operator configurations of the study
AllowedSourceRanges == {NilSlice, Slice(<<>>), Slice(<<localHost>>), Slice(<<"10.0.0.0/8">>)}
ServiceSpecs ==
    [AllowedSourceRanges : AllowedSourceRanges,
     EnableMasterLoadBalancer : OptionalBools, EnableReplicaLoadBalancer : OptionalBools]
ServiceConfigs == [EnableMasterLoadBalancer : BOOLEAN, EnableReplicaLoadBalancer : BOOLEAN]

shouldCreateLoadBalancerForService(role, spec, OpConfig) ==
    IF role = Replica
    THEN IF spec.EnableReplicaLoadBalancer # NilBool
         THEN spec.EnableReplicaLoadBalancer = "true"
         ELSE OpConfig.EnableReplicaLoadBalancer
    ELSE IF spec.EnableMasterLoadBalancer # NilBool
         THEN spec.EnableMasterLoadBalancer = "true"
         ELSE OpConfig.EnableMasterLoadBalancer

\* the source ranges of the load balancer: the safe default is replaced
\* when len(allowedSourceRanges) >= 0, and the length of a slice, nil or
\* not, is never negative
sourceRanges(allowedSourceRanges) ==
    IF Len(allowedSourceRanges.items) >= 0
    THEN allowedSourceRanges
    ELSE Slice(<<localHost>>)

generateService(role, spec, OpConfig) ==
    IF shouldCreateLoadBalancerForService(role, spec, OpConfig)
    THEN [Type |-> "LoadBalancer",
          LoadBalancerSourceRanges |-> sourceRanges(spec.AllowedSourceRanges)]
    ELSE [Type |-> "ClusterIP", LoadBalancerSourceRanges |-> NilSlice]

ServiceInit ==
    /\ ControllerIdle
    /\ nodes = NoNodes
    /\ nodeReadinessLabel = <<>>
    /\ nodeEvent = NoNodeEvent
    /\ call \in [op : {"generateService"}, role : {Master, Replica},
                 spec : ServiceSpecs, OpConfig : ServiceConfigs]
    /\ ret = NoReturn

ServiceCall ==
    /\ ret = NoReturn
    /\ ret' = [op |-> "generateService",
               service |-> generateService(call.role, call.spec, call.OpConfig)]
    /\ UNCHANGED <<ctlVars, clusters, crashed, podVars, nodes, nodeReadinessLabel, nodeEvent, call>>

ServiceNext == ServiceCall

ServiceSpec == ServiceInit /\ [][ServiceNext]_vars

\* C19: for a service whose load balancer is enabled, generateService gives
\* the source ranges [127.0.0.1/32] when allowedSourceRanges of the manifest
\* is an empty list, and gives no source ranges of its own when
\* allowedSourceRanges is nil.
C19_EmptyRangesLockToLocalHost ==
    (/\ call.op = "generateService"
     /\ ret.op = "generateService"
     /\ ret.service.Type = "LoadBalancer") =>
        /\ call.spec.AllowedSourceRanges = Slice(<<>>) =>
               ret.service.LoadBalancerSourceRanges = Slice(<<localHost>>)
        /\ call.spec.AllowedSourceRanges = NilSlice =>
               ret.service.LoadBalancerSourceRanges = NilSlice

(***************************************************************************)
(* The comparisons of Sync: the conditions of getStatefulSetChecks and     *)
(* getContainerChecks and SameService, applied to the observed object and  *)
(* the object rendered from the manifest.  A Go pointer is a record of the *)
(* address and the value it points to; != on pointers compares addresses.  *)
(***************************************************************************)
Ptr(addr, val) == [addr |-> addr, val |-> val]

\* the stateful sets of one allocation: Replicas and
\* TerminationGracePeriodSeconds are pointers into that allocation
StatefulSets(addr) ==
    [Replicas : {Ptr(addr, v) : v \in {1, 2}},
     TerminationGracePeriodSeconds : {Ptr(addr, v) : v \in {30, 60}},
     ServiceAccountName : {"operator", "other"},
     TemplateLabels : {{"application"}, {"application", "version"}},
     TemplateAnnotations : {{}, {"iam.role"}},
     Image : {"spilo:1", "spilo:2"}]

Services ==
    [Type : {"ClusterIP", "LoadBalancer"},
     LoadBalancerSourceRanges : {NilSlice, Slice(<<>>), Slice(<<localHost>>)}]

\* the conditions of getStatefulSetChecks that hold for a and b
getStatefulSetChecks(a, b) ==
    {reason \in {"replicas", "serviceAccountName", "terminationGracePeriodSeconds",
                 "templateLabels", "templateAnnotations"} :
        \/ reason = "replicas" /\ a.Replicas.addr # b.Replicas.addr
        \/ reason = "serviceAccountName" /\ a.ServiceAccountName # b.ServiceAccountName
        \/ /\ reason = "terminationGracePeriodSeconds"
           /\ a.TerminationGracePeriodSeconds.addr # b.TerminationGracePeriodSeconds.addr
        \/ reason = "templateLabels" /\ a.TemplateLabels # b.TemplateLabels
        \/ reason = "templateAnnotations" /\ a.TemplateAnnotations # b.TemplateAnnotations}

\* the conditions of getContainerChecks that hold for the containers of a and b
getContainerChecks(a, b) == {reason \in {"image"} : a.Image # b.Image}

\* reflect.DeepEqual of two slices: a nil slice equals only a nil slice
DeepEqualSlices(x, y) == x.isNil = y.isNil /\ x.items = y.items

SameService(curService, new) ==
    IF curService.Type # new.Type THEN FALSE
    ELSE IF /\ \/ Len(curService.LoadBalancerSourceRanges.items) # 0
               \/ Len(new.LoadBalancerSourceRanges.items) # 0
            /\ ~DeepEqualSlices(curService.LoadBalancerSourceRanges,
                                new.LoadBalancerSourceRanges)
    THEN FALSE
    ELSE TRUE

\* the Result of the check of a reason
CheckResult(reason) ==
    IF reason = "replicas"
    THEN [needUpdate |-> TRUE, needsRollUpdate |-> FALSE, needsReplace |-> FALSE]
    ELSE IF reason \in {"serviceAccountName", "terminationGracePeriodSeconds", "templateLabels"}
    THEN [needUpdate |-> FALSE, needsRollUpdate |-> TRUE, needsReplace |-> TRUE]
    ELSE IF reason = "templateAnnotations"
    THEN [needUpdate |-> TRUE, needsRollUpdate |-> TRUE, needsReplace |-> TRUE]
    ELSE [needUpdate |-> FALSE, needsRollUpdate |-> TRUE, needsReplace |-> FALSE]

\* Result{}: no action
NoResult == [needUpdate |-> FALSE, needsRollUpdate |-> FALSE, needsReplace |-> FALSE]

\* the types the type switch of NewCheck knows, and the dynamic type of the
\* function literals that getStatefulSetChecks and getContainerChecks pass
\* as cond: a function literal has the unnamed function type of its
\* signature, which is none of the three named types
ConditionTypes == {"ContainerCondition", "StatefulSetCondition", "VolumeClaimCondition"}
FuncLiteral == "func(a, b) bool"

\* ResourceCheck{}: no condition, no result, no reason
EmptyCheck == [condition |-> "none", reason |-> "", result |-> NoResult]

NewCheck(msg, condType, result) ==
    IF condType \in ConditionTypes
    THEN [condition |-> condType, reason |-> msg, result |-> result]
    ELSE EmptyCheck

\* the checks that getStatefulSetChecks and getContainerChecks return for
\* the conditions named by reasons
ChecksOf(reasons) == {NewCheck(reason, FuncLiteral, CheckResult(reason)) : reason \in reasons}

\* the union of the actions of a set of results
UnionOfResults(results) ==
    [needUpdate |-> \E r \in results : r.needUpdate,
     needsRollUpdate |-> \E r \in results : r.needsRollUpdate,
     needsReplace |-> \E r \in results : r.needsReplace]

\* the classification of a pair: the union of the results of the checks
\* that carry a condition and whose condition holds for the pair
Classify(a, b) ==
    UnionOfResults({c.result : c \in {d \in ChecksOf(getStatefulSetChecks(a, b)
                                                      \cup getContainerChecks(a, b)) :
                                           d.condition # "none"}})

CompareInit ==
    /\ ControllerIdle
    /\ nodes = NoNodes
    /\ nodeReadinessLabel = <<>>
    /\ nodeEvent = NoNodeEvent
    /\ call \in [op : {"compare"},
                 observed : StatefulSets("observed"), rendered : StatefulSets("rendered"),
                 observedService : Services, renderedService : Services]
    /\ ret = NoReturn

CompareCall ==
    /\ ret = NoReturn
    /\ ret' = [op |-> "compare",
               statefulSet |-> getStatefulSetChecks(call.observed, call.rendered),
               containers |-> getContainerChecks(call.observed, call.rendered),
               result |-> Classify(call.observed, call.rendered),
               reverse |-> Classify(call.rendered, call.observed),
               service |-> SameService(call.observedService, call.renderedService)]
    /\ UNCHANGED <<ctlVars, clusters, crashed, podVars, nodes, nodeReadinessLabel, nodeEvent, call>>

CompareNext == CompareCall

CompareSpec == CompareInit /\ [][CompareNext]_vars

\* the observed and the rendered objects have the same content
SameContent ==
    /\ call.observed.Replicas.val = call.rendered.Replicas.val
    /\ call.observed.TerminationGracePeriodSeconds.val
           = call.rendered.TerminationGracePeriodSeconds.val
    /\ call.observed.TemplateLabels = call.rendered.TemplateLabels
    /\ call.observed.TemplateAnnotations = call.rendered.TemplateAnnotations
    /\ call.observed.ServiceAccountName = call.rendered.ServiceAccountName
    /\ call.observed.Image = call.rendered.Image
    /\ call.observedService = call.renderedService

OnlyReplicasDiffer ==
    /\ call.observed.Replicas.val # call.rendered.Replicas.val
    /\ call.observed.TerminationGracePeriodSeconds.val
           = call.rendered.TerminationGracePeriodSeconds.val
    /\ call.observed.TemplateLabels = call.rendered.TemplateLabels
    /\ call.observed.TemplateAnnotations = call.rendered.TemplateAnnotations
    /\ call.observed.ServiceAccountName = call.rendered.ServiceAccountName
    /\ call.observed.Image = call.rendered.Image

MaxPasswordLen == 5
MD5HexLen == 2

md5prefix == <<"m", "d", "5">>
HexDigits == <<"0", "1", "2", "3", "4", "5", "6", "7", "8", "9", "a", "b", "c", "d", "e", "f">>
PasswordChars == <<"m", "d", "5", "a">>

\* the code of a character: the hexadecimal digits, then the letter m
CharCode(c) == CHOOSE i \in 1..(Len(HexDigits) + 1) : (HexDigits \o <<"m">>)[i] = c

\* the sum of the codes of s, each weighted by its place and by k
RECURSIVE WeightedSum(_, _, _)
WeightedSum(s, j, k) ==
    IF j > Len(s) THEN 0 ELSE CharCode(s[j]) * (j + k) + WeightedSum(s, j + 1, k)

\* hex.EncodeToString(md5.Sum(s))
md5hex(s) == [k \in 1..MD5HexLen |-> HexDigits[(WeightedSum(s, 1, k) % 16) + 1]]

\* a password hashed whatever it looks like
PGUserPasswordAlwaysHashed(user) == md5prefix \o md5hex(user.Password \o user.Name)

\* an already encrypted password is returned as it is, any other is hashed
\* together with the name of the user
PGUserPassword(user) ==
    IF /\ Len(user.Password) = MD5HexLen + Len(md5prefix)
       /\ SubSeq(user.Password, 1, 3) = md5prefix
    THEN user.Password
    ELSE md5prefix \o md5hex(user.Password \o user.Name)

\* the sequences over the characters of the study of length n
PasswordsOfLen(n) == [1..n -> {PasswordChars[i] : i \in 1..Len(PasswordChars)}]

PasswordInit ==
    /\ ControllerIdle
    /\ nodes = NoNodes
    /\ nodeReadinessLabel = <<>>
    /\ nodeEvent = NoNodeEvent
    /\ \E n \in 1..MaxPasswordLen, name \in {<<"a">>, <<"d", "a">>} :
           call \in [op : {"PGUserPassword"}, Name : {name}, Password : PasswordsOfLen(n)]
    /\ ret = NoReturn

\* the role sync computes the password to send, and the next sync computes
\* it from what the first one sent
PasswordCall ==
    /\ ret = NoReturn
    /\ LET pwd == PGUserPassword([Name |-> call.Name, Password |-> call.Password])
       IN  ret' = [op |-> "PGUserPassword", pwd |-> pwd,
                   again |-> PGUserPassword([Name |-> call.Name, Password |-> pwd])]
    /\ UNCHANGED <<ctlVars, clusters, crashed, podVars, nodes, nodeReadinessLabel, nodeEvent, call>>

PasswordNext == PasswordCall

PasswordSpec == PasswordInit /\ [][PasswordNext]_vars

\* the password has the shape of a digest: the prefix and the hex digits
LooksEncrypted(password) ==
    /\ Len(password) = Len(md5prefix) + MD5HexLen
    /\ \A i \in 1..Len(md5prefix) : password[i] = md5prefix[i]

\* C22: PGUserPassword gives "md5" followed by the digest of the password
\* and the user name for a plain password, gives back a password that is
\* already of that shape, and gives the same when applied to its own result.
C22_PasswordEncryptedOnce ==
    (call.op = "PGUserPassword" /\ ret.op = "PGUserPassword") =>
        /\ LooksEncrypted(ret.pwd)
        /\ LooksEncrypted(call.Password) => ret.pwd = call.Password
        /\ ~LooksEncrypted(call.Password) =>
               /\ Len(ret.pwd) = Len(md5prefix) + MD5HexLen
               /\ SubSeq(ret.pwd, Len(md5prefix) + 1, Len(ret.pwd))
                      = md5hex(call.Password \o call.Name)
        /\ ret.again = ret.pwd

\* a plain password that was hashed, and an encrypted one that was kept
C22_Witness ==
    /\ call.op = "PGUserPassword"
    /\ ret.op = "PGUserPassword"
    /\ \/ call.Password = <<"a", "d", "a">> /\ ret.pwd # call.Password
       \/ call.Password = <<"m", "d", "5", "a", "5">> /\ ret.pwd = call.Password
    /\ ret.again = ret.pwd

(***************************************************************************)
(* More properties of the rolling update, checked under PodSpec.           *)
(***************************************************************************)
\* the pods whose deletion was issued and whose replacement does not carry
\* a role label yet
BeingReplaced ==
    {p \in Pods : \/ pods[p].status \in {"terminating", "gone"}
                  \/ pods[p].status = "running" /\ pods[p].role = ""}

\* C23: the pods are replaced one at a time: at no time are two pods of the
\* cluster between the issue of their deletion and the role label of their
\* replacement.
C23_OnePodAtATime == Cardinality(BeingReplaced) <= 1

\* C24: a timeout of the wait for the Delete event or of the wait for the
\* role label makes recreatePod return an error, and recreatePods returns
\* that error at once: from the timeout on no deletion is issued.
C24_TimeoutStopsRollingUpdate ==
    [][/\ (rp.pc \in {"waitForPodDeletion", "waitForPodLabel"} /\ rp'.err) =>
              rp'.pc = "unregister"
       /\ (rp.err /\ rp' # rp) => (rp'.pc = "done" /\ rp'.result = "error")
       /\ (rp.err \/ rp.pc = "done") => deletions' = deletions]_vars

\* the wait for the first of two replicas timed out: recreatePods returned
\* an error and the second replica was left alone
C24_Witness ==
    /\ rp.pc = "done"
    /\ rp.result = "error"
    /\ Len(rp.listing) = 2
    /\ ListedMasters = {}
    /\ deletions = <<rp.listing[1].name>>
    /\ rp.target = rp.listing[1].name
    /\ pods[rp.listing[2].name].status = "running"

GuardFails(event) ==
    \/ event.EventType = EventAdd /\ clusters[EventClusterName(event)].found
    \/ event.EventType = EventUpdate /\ ~clusters[EventClusterName(event)].found
    \/ event.EventType = EventDelete /\ ~clusters[EventClusterName(event)].found

\* worker w ends processEvent in this step, by a return or by a panic
ProcessEventEnds(w) ==
    /\ cur[w] # NoEvent
    /\ \/ cur'[w] = NoEvent
       \/ crashed' /\ ~crashed /\ cur[w].EventType = EventDelete

C27_ErrorTracksLastOperation ==
    [][\A w \in WorkerIDs :
           (cur[w] # NoEvent /\ OperationRuns(cur[w]) /\ cur'[w] = NoEvent) =>
               /\ ret'.name = EventClusterName(cur[w])
               /\ clusters'[ret'.name].found
               /\ clusters'[ret'.name].Error = ret'.err
               /\ ~crashed']_vars

\* a cluster whose Error was set has been updated or synced with success:
\* the Error is cleared and the cluster is still in the registry
C27_Witness ==
    /\ ret.op = "processEvent"
    /\ ret.was
    /\ ~ret.err
    /\ clusters[ret.name].found
    /\ ~clusters[ret.name].Error
    /\ \A w \in WorkerIDs : cur[w] = NoEvent

(***************************************************************************)
(* movePodsOffNode.  call holds the pods the list returns; ret is the      *)
(* state of the handler: its place, whether the list succeeded, its local  *)
(* variables, the mutexes of the clusters and the migrations attempted.    *)
(***************************************************************************)
NumDrainPods == 2
DrainPods == 1..NumDrainPods
\* the cluster of a pod that does not belong to a known cluster
NoKnownCluster == 0

\* the pods of the list: role label (or none), cluster, and whether the pod
\* runs on the node
DrainPodObjects ==
    [role : {PodRoleMaster, PodRoleReplica, ""},
     cluster : Clusters \cup {NoKnownCluster},
     onNode : BOOLEAN]

NoDrain ==
    [pc |-> "idle", listed |-> FALSE, nodePods |-> {}, clusters |-> {}, masterPods |-> {},
     replicaPods |-> {},
     movedPods |-> 0, totalPods |-> 0, attempts |-> <<>>,
     mu |-> [cl \in Clusters |-> "free"]]

\* the pods of the node that have a role label and a known cluster
MovablePods(podList) ==
    {p \in DrainPods : /\ podList[p].onNode
                       /\ podList[p].role # ""
                       /\ podList[p].cluster # NoKnownCluster}

\* a handler that notes the clusters of the master pods only
movePodsOffNodeListMastersOnly(r, podList, listOk) ==
    IF ~listOk THEN [r EXCEPT !.pc = "done"]
    ELSE LET movable == MovablePods(podList)
         IN  [r EXCEPT
                !.pc = "lock",
                !.listed = TRUE,
                !.nodePods = {p \in DrainPods : podList[p].onNode},
                !.totalPods = Cardinality({p \in DrainPods : podList[p].onNode}),
                !.clusters = {podList[p].cluster :
                                 p \in {q \in movable : podList[q].role = PodRoleMaster}},
                !.masterPods = {p \in movable : podList[p].role = PodRoleMaster},
                !.replicaPods = {p \in movable : podList[p].role # PodRoleMaster},
                !.movedPods = Cardinality(movable)]

\* the list and the loop over nodePods; listOk: whether the list succeeds
movePodsOffNodeList(r, podList, listOk) ==
    IF ~listOk THEN [r EXCEPT !.pc = "done"]
    ELSE LET movable == MovablePods(podList)
         IN  [r EXCEPT
                !.pc = "lock",
                !.listed = TRUE,
                !.nodePods = {p \in DrainPods : podList[p].onNode},
                !.totalPods = Cardinality({p \in DrainPods : podList[p].onNode}),
                !.clusters = {podList[p].cluster : p \in movable},
                !.masterPods = {p \in movable : podList[p].role = PodRoleMaster},
                !.replicaPods = {p \in movable : podList[p].role # PodRoleMaster},
                !.movedPods = Cardinality(movable)]

\* a handler that gives up at the first migration that fails
AfterMigrateStoppingOnError(r, pod, role, ok) ==
    IF ok
    THEN [r EXCEPT !.attempts = Append(@, [pod |-> pod, role |-> role, ok |-> ok]),
                   !.masterPods = @ \ {pod}, !.replicaPods = @ \ {pod}]
    ELSE [r EXCEPT !.attempts = Append(@, [pod |-> pod, role |-> role, ok |-> ok]),
                   !.masterPods = {}, !.replicaPods = {},
                   !.movedPods = @ - 1]

\* the handler after MigrateMasterPod or MigrateReplicaPod of a pod
AfterMigrate(r, pod, role, ok) ==
    [r EXCEPT !.attempts = Append(@, [pod |-> pod, role |-> role, ok |-> ok]),
              !.masterPods = @ \ {pod}, !.replicaPods = @ \ {pod},
              !.movedPods = IF ok THEN @ ELSE @ - 1]

\* a handler that unlocks the first cluster only
ClustersToUnlockFirstOnly(r) ==
    IF r.clusters = {} THEN {} ELSE {CHOOSE cl \in r.clusters : \A x \in r.clusters : cl <= x}

\* the clusters the last loop unlocks
ClustersToUnlock(r) == r.clusters

DrainInit ==
    /\ ControllerIdle
    /\ nodes = NoNodes
    /\ nodeReadinessLabel = <<>>
    /\ nodeEvent = NoNodeEvent
    /\ call \in [op : {"movePodsOffNode"}, podList : [DrainPods -> DrainPodObjects]]
    /\ ret = NoDrain

DrainUnchanged ==
    UNCHANGED <<ctlVars, clusters, crashed, podVars, nodes, nodeReadinessLabel, nodeEvent, call>>

DrainList(listOk) ==
    /\ ret.pc = "idle"
    /\ ret' = movePodsOffNodeList(ret, call.podList, listOk)
    /\ DrainUnchanged

\* cl.Lock() in the range over the clusters, which takes them in any order
DrainLock(cl) ==
    /\ ret.pc = "lock"
    /\ cl \in ret.clusters
    /\ ret.mu[cl] = "free"
    /\ ret' = [ret EXCEPT !.mu[cl] = "drain"]
    /\ DrainUnchanged

\* the range over masterPods, entered when every cluster is locked
DrainMigrateMaster(pod, ok) ==
    /\ ret.pc \in {"lock", "migrate"}
    /\ \A cl \in ret.clusters : ret.mu[cl] = "drain"
    /\ pod \in ret.masterPods
    /\ ret' = [AfterMigrate(ret, pod, PodRoleMaster, ok) EXCEPT !.pc = "migrate"]
    /\ DrainUnchanged

\* the range over replicaPods, entered when the one over masterPods is over
DrainMigrateReplica(pod, ok) ==
    /\ ret.pc \in {"lock", "migrate"}
    /\ \A cl \in ret.clusters : ret.mu[cl] = "drain"
    /\ ret.masterPods = {}
    /\ pod \in ret.replicaPods
    /\ ret' = [AfterMigrate(ret, pod, PodRoleReplica, ok) EXCEPT !.pc = "migrate"]
    /\ DrainUnchanged

\* cl.Unlock() in the last range over the clusters
DrainUnlock(cl) ==
    /\ ret.pc \in {"lock", "migrate", "unlock"}
    /\ \A x \in ret.clusters : ret.pc = "lock" => ret.mu[x] = "drain"
    /\ ret.masterPods = {} /\ ret.replicaPods = {}
    /\ cl \in ClustersToUnlock(ret)
    /\ ret.mu[cl] = "drain"
    /\ ret' = [ret EXCEPT !.mu[cl] = "free", !.pc = "unlock"]
    /\ DrainUnchanged

\* the report of the counts and the return
DrainReturn ==
    /\ ret.pc \in {"lock", "migrate", "unlock"}
    /\ \A x \in ret.clusters : ret.pc = "lock" => ret.mu[x] = "drain"
    /\ ret.masterPods = {} /\ ret.replicaPods = {}
    /\ \A cl \in ClustersToUnlock(ret) : ret.pc = "unlock" => ret.mu[cl] # "drain"
    /\ ret.pc = "unlock" \/ ClustersToUnlock(ret) = {}
    /\ ret' = [ret EXCEPT !.pc = "done"]
    /\ DrainUnchanged

\* a worker takes the mutex of a cluster for an operation on it
WorkerLock(cl) ==
    /\ ret.pc # "done"
    /\ ret.mu[cl] = "free"
    /\ ret' = [ret EXCEPT !.mu[cl] = "worker"]
    /\ DrainUnchanged

\* and releases it when the operation is over
WorkerUnlock(cl) ==
    /\ ret.mu[cl] = "worker"
    /\ ret' = [ret EXCEPT !.mu[cl] = "free"]
    /\ DrainUnchanged

DrainNext ==
    \/ \E listOk \in BOOLEAN : DrainList(listOk)
    \/ \E cl \in Clusters : DrainLock(cl)
    \/ \E pod \in DrainPods, ok \in BOOLEAN : DrainMigrateMaster(pod, ok)
    \/ \E pod \in DrainPods, ok \in BOOLEAN : DrainMigrateReplica(pod, ok)
    \/ \E cl \in Clusters : DrainUnlock(cl)
    \/ DrainReturn
    \/ \E cl \in Clusters : WorkerLock(cl)
    \/ \E cl \in Clusters : WorkerUnlock(cl)

DrainSpec == DrainInit /\ [][DrainNext]_vars

\* the places of attempts that hold a migration of the pod
AttemptsOf(pod) == {i \in 1..Len(ret.attempts) : ret.attempts[i].pod = pod}

\* C28: in one run of the handler every replica pod of the node is migrated
\* before any master pod of the node.
C28_ReplicasBeforeMasters ==
    call.op = "movePodsOffNode" =>
        \A i, j \in 1..Len(ret.attempts) :
            (ret.attempts[i].role = PodRoleReplica /\ ret.attempts[j].role = PodRoleMaster)
                => i < j

\* C29: a migration that fails does not end the run: when the handler has
\* returned after a list that succeeded, every pod of the node with a role
\* label and a known cluster was attempted exactly once, the moved count is
\* the number of migrations without error, it lies between 0 and the number
\* of pods of the node, and the rest is the number reported as not moved.
C29_FailedMigrationGoesOn ==
    (call.op = "movePodsOffNode" /\ ret.pc = "done" /\ ret.listed) =>
        /\ \A p \in DrainPods :
               Cardinality(AttemptsOf(p)) = IF p \in MovablePods(call.podList) THEN 1 ELSE 0
        /\ ret.movedPods = Cardinality({i \in 1..Len(ret.attempts) : ret.attempts[i].ok})
        /\ 0 <= ret.movedPods
        /\ ret.movedPods <= ret.totalPods
        /\ ret.totalPods = Cardinality({p \in DrainPods : call.podList[p].onNode})
        /\ ret.totalPods - ret.movedPods
               = Cardinality({p \in DrainPods : call.podList[p].onNode}
                                 \ {ret.attempts[i].pod : i \in {k \in 1..Len(ret.attempts) :
                                                                   ret.attempts[k].ok}})

\* the first migration failed, the second one was attempted and went well
C29_Witness ==
    /\ call.op = "movePodsOffNode"
    /\ ret.pc = "done"
    /\ Len(ret.attempts) = 2
    /\ ~ret.attempts[1].ok
    /\ ret.attempts[2].ok
    /\ ret.totalPods = 2
    /\ ret.movedPods = 1

\* a step of the handler between the list and the return
DrainStep ==
    \/ \E cl \in Clusters : DrainLock(cl)
    \/ \E pod \in DrainPods, ok \in BOOLEAN : DrainMigrateMaster(pod, ok)
    \/ \E pod \in DrainPods, ok \in BOOLEAN : DrainMigrateReplica(pod, ok)
    \/ \E cl \in Clusters : DrainUnlock(cl)
    \/ DrainReturn

C31_DrainExcludesWorkers ==
    [][Len(ret'.attempts) > Len(ret.attempts) =>
           LET cl == call.podList[ret'.attempts[Len(ret'.attempts)].pod].cluster
           IN  /\ ret.mu[cl] = "drain"
               /\ ret'.mu[cl] = "drain"]_vars

\* the handler has migrated a pod of one cluster while a worker runs an
\* operation on the other cluster
C31_Witness ==
    /\ call.op = "movePodsOffNode"
    /\ ret.pc = "migrate"
    /\ Len(ret.attempts) >= 1
    /\ \E cl \in Clusters : ret.mu[cl] = "worker"
    /\ \E cl \in Clusters : ret.mu[cl] = "drain"


(***************************************************************************)
(* The stop signal of Run: stopCh is closed, every worker's helper          *)
(* goroutine closes that worker's queue, and a worker whose Pop finds the  *)
(* queue closed and empty returns from its loop, its deferred wg.Done      *)
(* signalling the wait group.                                              *)
(***************************************************************************)

StopUnchanged ==
    UNCHANGED <<auxVars, podVars, manifest, queues, cur, clusters, stopChs, clusterLogs,
                teamClusters, crashed, elapsed, sinceTick, ops, arrival, closes>>

\* the close of stopCh
StopSignal ==
    /\ ~crashed
    /\ ~run.stopped
    /\ run' = [run EXCEPT !.stopped = TRUE]
    /\ StopUnchanged

\* go func() { <-stopCh; c.clusterEventQueues[idx].Close() }()
QueueClose(w) ==
    /\ ~crashed
    /\ run.stopped
    /\ ~run.closed[w]
    /\ run' = [run EXCEPT !.closed[w] = TRUE]
    /\ StopUnchanged

\* Pop on a closed queue with nothing left in it returns the closed-queue
\* error and the loop returns; events still queued are popped first
WorkerExit(w) ==
    /\ ~crashed
    /\ ~run.exited[w]
    /\ cur[w] = NoEvent
    /\ queues[w] = <<>>
    /\ run.closed[w]
    /\ run' = [run EXCEPT !.exited[w] = TRUE]
    /\ StopUnchanged

StopNext ==
    \/ Next
    \/ StopSignal
    \/ \E w \in WorkerIDs : QueueClose(w)
    \/ \E w \in WorkerIDs : WorkerExit(w)

StopSpec ==
    /\ Init
    /\ [][StopNext]_vars
    /\ WF_vars(ClockStep)
    /\ WF_vars(clusterResync)
    /\ \A w \in WorkerIDs : WF_vars(processClusterEventsQueue(w))
    /\ \A w \in WorkerIDs : WF_vars(\E ok \in BOOLEAN : processEvent(w, ok))
    /\ \A w \in WorkerIDs : WF_vars(QueueClose(w))
    /\ \A w \in WorkerIDs : WF_vars(WorkerExit(w))

\* C32: once the stop signal is given, every worker eventually leaves its
\* loop and signals the wait group.
C32_WorkersExitAfterStop ==
    run.stopped ~> (\A w \in WorkerIDs : run.exited[w])

\* the same with the panic set aside: a stopped controller that has not
\* panicked gets every worker out of its loop
C32_WorkersExitUnlessPanic ==
    run.stopped ~> (crashed \/ \A w \in WorkerIDs : run.exited[w])

\* no event is taken up by a worker that has left its loop
C32_NoEventAfterExit ==
    \A w \in WorkerIDs : run.exited[w] => cur[w] = NoEvent /\ run.closed[w]

(***************************************************************************)
(* Properties of the classification of a pair of stateful sets.  The       *)
(* actions are patch (needUpdate), rolling_update (needsRollUpdate) and    *)
(* recreate (needsReplace).                                                *)
(***************************************************************************)

\* the rules whose condition holds for the observed and the rendered object
RulesThatFire == ret.statefulSet \cup ret.containers

\* C33: the classification of a pair is the same in both directions, and it
\* is the union of the actions of the rules whose condition holds for the
\* pair.
C33_ClassificationSymmetricUnion ==
    (call.op = "compare" /\ ret.op = "compare") =>
        /\ ret.result = ret.reverse
        /\ ret.result = UnionOfResults({CheckResult(reason) : reason \in RulesThatFire})

\* the half of C33 that the checks do satisfy: both directions agree
C33_ClassificationSymmetric ==
    (call.op = "compare" /\ ret.op = "compare") => ret.result = ret.reverse

\* the two stateful sets have the same content outside the pod template's
\* labels and annotations
SameOutsideTemplateMetadata ==
    /\ call.observed.Replicas.val = call.rendered.Replicas.val
    /\ call.observed.TerminationGracePeriodSeconds.val
           = call.rendered.TerminationGracePeriodSeconds.val
    /\ call.observed.ServiceAccountName = call.rendered.ServiceAccountName
    /\ call.observed.Image = call.rendered.Image

OnlyTemplateLabelsDiffer ==
    /\ SameOutsideTemplateMetadata
    /\ call.observed.TemplateLabels # call.rendered.TemplateLabels
    /\ call.observed.TemplateAnnotations = call.rendered.TemplateAnnotations

OnlyTemplateAnnotationsDiffer ==
    /\ SameOutsideTemplateMetadata
    /\ call.observed.TemplateLabels = call.rendered.TemplateLabels
    /\ call.observed.TemplateAnnotations # call.rendered.TemplateAnnotations

\* C34: for a pair that differs only in the pod template's labels, or only
\* in the pod template's annotations, the rule of that difference holds and
\* asks for a patch and a rolling update, and not for a replacement.
C34_TemplateMetadataIsPatchAndRoll ==
    (/\ call.op = "compare"
     /\ ret.op = "compare"
     /\ OnlyTemplateLabelsDiffer \/ OnlyTemplateAnnotationsDiffer) =>
        /\ ret.statefulSet \cap {"templateLabels", "templateAnnotations"} # {}
        /\ \A reason \in ret.statefulSet \cap {"templateLabels", "templateAnnotations"} :
               CheckResult(reason)
                   = [needUpdate |-> TRUE, needsRollUpdate |-> TRUE, needsReplace |-> FALSE]

(***************************************************************************)
(* waitPodLabelsReady, the wait for the role labels at the end of Create.   *)
(* call.labels is the role label of each pod of the cluster in the API     *)
(* server; ret is the state of the wait.  Retry calls its function every   *)
(* ResourceCheckInterval until it gives true or an error, and gives up     *)
(* after ResourceCheckTimeout, that is after MaxPolls calls.               *)
(***************************************************************************)
NumWaitPods == 2
MaxPolls == 2

WaitPods == 1..NumWaitPods
PodRoleLabels == {"", "master", "replica"}

NoWait ==
    [pc |-> "idle", podsNumber |-> 0, masters |-> 0, replicas |-> 0, polls |-> 0,
     masterLess |-> FALSE, err |-> "none"]

\* len of the list of the pods that bear the role label
Labelled(role) == Cardinality({p \in WaitPods : call.labels[p] = role})

WaitInit ==
    /\ ControllerIdle
    /\ nodes = NoNodes
    /\ nodeReadinessLabel = <<>>
    /\ nodeEvent = NoNodeEvent
    /\ call \in [op : {"waitPodLabelsReady"}, labels : [WaitPods -> PodRoleLabels]]
    /\ ret = NoWait

WaitUnchanged ==
    UNCHANGED <<ctlVars, clusters, crashed, podVars, nodes, nodeReadinessLabel, nodeEvent>>

\* Patroni sets or changes the role label of a pod
WaitRelabel(p, role) ==
    /\ call.labels[p] # role
    /\ call' = [call EXCEPT !.labels[p] = role]
    /\ UNCHANGED ret
    /\ WaitUnchanged

\* the list of all the pods of the cluster, taken once before the retries
WaitListPods(listOk) ==
    /\ ret.pc = "idle"
    /\ ret' = IF listOk
              THEN [ret EXCEPT !.pc = "masters", !.podsNumber = NumWaitPods]
              ELSE [ret EXCEPT !.pc = "done", !.err = "list"]
    /\ UNCHANGED call
    /\ WaitUnchanged

\* one call of the retried function begins: the list of the master pods
WaitListMasters(listOk) ==
    /\ ret.pc = "masters"
    /\ ret' = IF listOk
              THEN [ret EXCEPT !.pc = "replicas", !.masters = Labelled("master"),
                               !.polls = @ + 1]
              ELSE [ret EXCEPT !.pc = "done", !.err = "list", !.polls = @ + 1]
    /\ UNCHANGED call
    /\ WaitUnchanged

\* what the retried function gives once it has both lists
PollOutcome(r, replicaPods) ==
    IF r.masters > 1
    THEN [r EXCEPT !.pc = "done", !.replicas = replicaPods, !.err = "too many masters"]
    ELSE IF replicaPods = r.podsNumber
    THEN [r EXCEPT !.pc = "done", !.replicas = replicaPods, !.masterLess = TRUE]
    ELSE IF r.masters + replicaPods = r.podsNumber
    THEN [r EXCEPT !.pc = "done", !.replicas = replicaPods]
    ELSE IF r.polls = MaxPolls
    THEN [r EXCEPT !.pc = "done", !.replicas = replicaPods, !.err = "timeout"]
    ELSE [r EXCEPT !.pc = "masters", !.replicas = replicaPods]

\* the list of the replica pods, and the verdict of this call
WaitListReplicas(listOk) ==
    /\ ret.pc = "replicas"
    /\ ret' = IF listOk
              THEN PollOutcome(ret, Labelled("replica"))
              ELSE [ret EXCEPT !.pc = "done", !.err = "list"]
    /\ UNCHANGED call
    /\ WaitUnchanged

WaitNext ==
    \/ \E p \in WaitPods, role \in PodRoleLabels : WaitRelabel(p, role)
    \/ \E listOk \in BOOLEAN : WaitListPods(listOk)
    \/ \E listOk \in BOOLEAN : WaitListMasters(listOk)
    \/ \E listOk \in BOOLEAN : WaitListReplicas(listOk)

WaitSpec == WaitInit /\ [][WaitNext]_vars

\* the wait has returned without an error
WaitSucceeded == ret.pc = "done" /\ ret.err = "none"

\* the half of C35 about the lists: a wait that succeeds has listed at most
\* one master, and its masters and replicas are as many as the pods
C35_SuccessMeansLabelled ==
    (call.op = "waitPodLabelsReady" /\ WaitSucceeded) =>
        /\ ret.masters <= 1
        /\ ret.masters + ret.replicas = ret.podsNumber

\* C35: the wait for the pod labels succeeds only when at most one pod is
\* listed as master and masters plus replicas equal the number of pods; the
\* cluster is flagged master-less only when the whole timeout has been
\* waited for a master, and the wait then returns without an error.
C35_MasterLessOnlyAfterTimeout ==
    call.op = "waitPodLabelsReady" =>
        /\ WaitSucceeded => ret.masters <= 1 /\ ret.masters + ret.replicas = ret.podsNumber
        /\ ret.masterLess => ret.polls = MaxPolls /\ WaitSucceeded

(***************************************************************************)
(* The database statements: executeCreateDatabase and                      *)
(* executeAlterDatabaseOwner.  call.pgUsers is the set of the names in     *)
(* c.pgUsers; ret.dbs is pg_database, the owner of each database or        *)
(* NoOwner for a database that does not exist; ret.before is pg_database   *)
(* as it was when the last call began.  Names are sequences of characters. *)
(***************************************************************************)
DbNames ==
    {<<"a", "p", "p">>, <<"_", "d", "1">>, <<"1", "d">>, <<"a", "-", "b">>}
DbOwners == {"app", "ghost"}
NoOwner == ""

\* databaseNameRegexp.MatchString: a letter or an underscore, then letters,
\* digits and underscores
MatchDatabaseName(datname) ==
    /\ Len(datname) > 0
    /\ IsLetter(datname[1]) \/ datname[1] = "_"
    /\ \A i \in 2..Len(datname) :
           IsLetter(datname[i]) \/ datname[i] \in Digits \/ datname[i] = "_"

\* a test that leaves the owner out
databaseNameValid(datname, owner) == MatchDatabaseName(datname)

databaseNameOwnerValid(datname, owner) ==
    IF owner \notin call.pgUsers THEN FALSE
    ELSE IF ~MatchDatabaseName(datname) THEN FALSE
    ELSE TRUE

DatabaseInit ==
    /\ ControllerIdle
    /\ nodes = NoNodes
    /\ nodeReadinessLabel = <<>>
    /\ nodeEvent = NoNodeEvent
    /\ call \in [op : {"syncDatabases"}, pgUsers : SUBSET DbOwners]
    /\ ret \in {[op |-> "none", datname |-> <<>>, owner |-> NoOwner, statement |-> "none",
                 err |-> "none", dbs |-> d, before |-> d] :
                    d \in [DbNames -> DbOwners \cup {NoOwner}]}

DatabaseUnchanged ==
    UNCHANGED <<ctlVars, clusters, crashed, podVars, nodes, nodeReadinessLabel, nodeEvent, call>>

\* queryOk: whether the server carries the statement out; CREATE DATABASE
\* fails for a database that exists
executeCreateDatabase(datname, owner, queryOk) ==
    /\ ret' = IF ~databaseNameOwnerValid(datname, owner)
              THEN [ret EXCEPT !.op = "executeCreateDatabase", !.datname = datname,
                               !.owner = owner, !.statement = "none", !.err = "none",
                               !.before = ret.dbs]
              ELSE IF queryOk /\ ret.dbs[datname] = NoOwner
              THEN [ret EXCEPT !.op = "executeCreateDatabase", !.datname = datname,
                               !.owner = owner, !.statement = "CREATE DATABASE",
                               !.err = "none", !.before = ret.dbs,
                               !.dbs = [ret.dbs EXCEPT ![datname] = owner]]
              ELSE [ret EXCEPT !.op = "executeCreateDatabase", !.datname = datname,
                               !.owner = owner, !.statement = "CREATE DATABASE",
                               !.err = "could not execute create database",
                               !.before = ret.dbs]
    /\ DatabaseUnchanged

\* ALTER DATABASE fails for a database that does not exist
executeAlterDatabaseOwner(datname, owner, queryOk) ==
    /\ ret' = IF ~databaseNameOwnerValid(datname, owner)
              THEN [ret EXCEPT !.op = "executeAlterDatabaseOwner", !.datname = datname,
                               !.owner = owner, !.statement = "none", !.err = "none",
                               !.before = ret.dbs]
              ELSE IF queryOk /\ ret.dbs[datname] # NoOwner
              THEN [ret EXCEPT !.op = "executeAlterDatabaseOwner", !.datname = datname,
                               !.owner = owner, !.statement = "ALTER DATABASE",
                               !.err = "none", !.before = ret.dbs,
                               !.dbs = [ret.dbs EXCEPT ![datname] = owner]]
              ELSE [ret EXCEPT !.op = "executeAlterDatabaseOwner", !.datname = datname,
                               !.owner = owner, !.statement = "ALTER DATABASE",
                               !.err = "could not execute alter database owner",
                               !.before = ret.dbs]
    /\ DatabaseUnchanged

DatabaseNext ==
    \/ \E datname \in DbNames, owner \in DbOwners, queryOk \in BOOLEAN :
           executeCreateDatabase(datname, owner, queryOk)
    \/ \E datname \in DbNames, owner \in DbOwners, queryOk \in BOOLEAN :
           executeAlterDatabaseOwner(datname, owner, queryOk)

DatabaseSpec == DatabaseInit /\ [][DatabaseNext]_vars

\* the pair of the last call has an owner that is not in pgUsers or a name
\* that fails the regexp
InvalidPair ==
    /\ ret.op \in {"executeCreateDatabase", "executeAlterDatabaseOwner"}
    /\ ret.owner \notin call.pgUsers \/ ~MatchDatabaseName(ret.datname)

\* C36: no call drops a database; a call for a pair whose owner is not in
\* pgUsers or whose name fails the regexp issues no statement, returns no
\* error and leaves the databases and their owners as they were.
C36_InvalidPairIssuesNoStatement ==
    call.op = "syncDatabases" =>
        /\ \A datname \in DbNames :
               ret.before[datname] # NoOwner => ret.dbs[datname] # NoOwner
        /\ InvalidPair =>
               /\ ret.statement = "none"
               /\ ret.err = "none"
               /\ ret.dbs = ret.before

C36_Witness ==
    /\ call.op = "syncDatabases"
    /\ ret.op = "executeAlterDatabaseOwner"
    /\ ret.owner \notin call.pgUsers
    /\ MatchDatabaseName(ret.datname)
    /\ ret.dbs[ret.datname] \notin {NoOwner, ret.owner}
    /\ ret.statement = "none"

(***************************************************************************)
(* The registry of processEvent with the team id of the manifest.  A       *)
(* cluster record carries TeamID, the team id of the specification the     *)
(* cluster holds: cluster.New takes it from the event, and cl.Update       *)
(* replaces the specification of the cluster by the new one.  Events reach *)
(* processEvent one at a time per cluster; ret is the last event and       *)
(* whether its cluster was found.                                          *)
(***************************************************************************)
MaxRegistryOps == 4

TeamIDs == {"acid", "ACID", "data"}

\* strings.ToLower of a team id
ToLowerTeamID(teamID) == IF teamID = "ACID" THEN "acid" ELSE teamID

RegistryInit ==
    /\ ControllerIdle
    /\ nodes = NoNodes
    /\ nodeReadinessLabel = <<>>
    /\ nodeEvent = NoNodeEvent
    /\ call = [op |-> "processEvent"]
    /\ ret = NoReturn

RegistryUnchanged ==
    UNCHANGED <<manifest, queues, cur, elapsed, sinceTick, arrival, run, podVars,
                nodes, nodeReadinessLabel, nodeEvent, call>>

\* the registration of the Add and Sync cases, under the team of the event
RegisterClusterOfTeam(name, teamID) ==
    /\ teamClusters' = [teamClusters EXCEPT ![ToLowerTeamID(teamID)] = Append(@, name)]
    /\ stopChs' = [stopChs EXCEPT ![name] = "open"]
    /\ clusterLogs' = clusterLogs \cup {name}
    /\ closes' = [closes EXCEPT ![name] = 0]

RegistryAdd(name, teamID, ok) ==
    IF clusters[name].found
    THEN UNCHANGED <<clusters, stopChs, clusterLogs, teamClusters, crashed, closes>>
    ELSE /\ RegisterClusterOfTeam(name, teamID)
         /\ clusters' = [clusters EXCEPT
                ![name] = [found |-> TRUE, Error |-> ~ok, TeamID |-> teamID]]
         /\ UNCHANGED crashed

RegistryUpdate(name, teamID, ok) ==
    IF ~clusters[name].found
    THEN UNCHANGED <<clusters, stopChs, clusterLogs, teamClusters, crashed, closes>>
    ELSE /\ clusters' = [clusters EXCEPT
                ![name] = [found |-> TRUE, Error |-> ~ok, TeamID |-> teamID]]
         /\ UNCHANGED <<stopChs, clusterLogs, teamClusters, crashed, closes>>

\* teamName is taken from the specification the cluster holds now
RegistryDelete(name, ok) ==
    IF ~clusters[name].found
    THEN /\ crashed' = TRUE
         /\ UNCHANGED <<clusters, stopChs, clusterLogs, teamClusters, closes>>
    ELSE IF ~ok
    THEN UNCHANGED <<clusters, stopChs, clusterLogs, teamClusters, crashed, closes>>
    ELSE /\ closes' = [closes EXCEPT ![name] = @ + 1]
         /\ clusters' = [clusters EXCEPT ![name] = NoCluster]
         /\ stopChs' = [stopChs EXCEPT ![name] = "none"]
         /\ clusterLogs' = clusterLogs \ {name}
         /\ teamClusters' = [teamClusters EXCEPT
                ![ToLowerTeamID(clusters[name].TeamID)] = RemoveFirst(@, name)]
         /\ UNCHANGED crashed

RegistrySync(name, teamID, ok) ==
    IF ~clusters[name].found
    THEN /\ RegisterClusterOfTeam(name, teamID)
         /\ clusters' = [clusters EXCEPT
                ![name] = [found |-> TRUE, Error |-> ~ok, TeamID |-> teamID]]
         /\ UNCHANGED crashed
    ELSE /\ clusters' = [clusters EXCEPT ![name].Error = ~ok]
         /\ UNCHANGED <<stopChs, clusterLogs, teamClusters, crashed, closes>>

RegistryEvent(type, name, teamID, ok) ==
    /\ ~crashed
    /\ ops < MaxRegistryOps
    /\ ops' = ops + 1
    /\ CASE type = EventAdd -> RegistryAdd(name, teamID, ok)
         [] type = EventUpdate -> RegistryUpdate(name, teamID, ok)
         [] type = EventDelete -> RegistryDelete(name, ok)
         [] type = EventSync -> RegistrySync(name, teamID, ok)
    /\ ret' = [op |-> "processEvent", type |-> type, name |-> name, ok |-> ok,
               found |-> clusters[name].found]
    /\ RegistryUnchanged

\* TeamClustersStatus: cl.GetStatus() for every name of the team's list; a
\* name that is not in c.clusters gives a nil cluster
TeamClustersStatus(team) ==
    /\ ~crashed
    /\ ret' = [op |-> "TeamClustersStatus", team |-> team,
               nilCluster |-> \E i \in 1..Len(teamClusters[team]) :
                                  ~clusters[teamClusters[team][i]].found]
    /\ UNCHANGED <<clusters, stopChs, clusterLogs, teamClusters, crashed, closes, ops>>
    /\ RegistryUnchanged

RegistryNext ==
    \/ \E type \in {EventAdd, EventUpdate, EventDelete, EventSync}, name \in Clusters,
          teamID \in TeamIDs, ok \in BOOLEAN : RegistryEvent(type, name, teamID, ok)
    \/ \E team \in Teams : TeamClustersStatus(team)

RegistrySpec == RegistryInit /\ [][RegistryNext]_vars

\* how often a name occurs in the lists of teamClusters
Occurrences(name) ==
    Cardinality({<<t, i>> \in Teams \X (1..MaxRegistryOps) :
                    i <= Len(teamClusters[t]) /\ teamClusters[t][i] = name})

\* C37: clusters, stopChs and clusterLogs have the same keys, a name occurs
\* at most once in teamClusters, and every name of teamClusters is a key of
\* clusters.
C37_RegistryMapsAgree ==
    call.op = "processEvent" =>
        /\ \A name \in Clusters :
               /\ clusters[name].found <=> stopChs[name] # "none"
               /\ clusters[name].found <=> name \in clusterLogs
               /\ Occurrences(name) <= 1
        /\ \A t \in Teams : \A i \in 1..Len(teamClusters[t]) :
               clusters[teamClusters[t][i]].found

\* the half of C37 that holds: clusters, stopChs and clusterLogs have the
\* same keys
C37_KeySetsAgree ==
    call.op = "processEvent" =>
        \A name \in Clusters :
            /\ clusters[name].found <=> stopChs[name] # "none"
            /\ clusters[name].found <=> name \in clusterLogs

\* a successful Delete of a registered cluster leaves the cluster in none
\* of clusters, stopChs, clusterLogs and teamClusters
C8_DeletedClusterAbsent ==
    (/\ call.op = "processEvent"
     /\ ret.op = "processEvent"
     /\ ret.type = EventDelete
     /\ ret.found
     /\ ret.ok) =>
        AbsentFromRegistry(clusters, stopChs, clusterLogs, teamClusters, ret.name)

(***************************************************************************)
(* More properties of the rolling update, checked under PodSpec.           *)
(***************************************************************************)

\* C38: the event that satisfies waitForPodLabel comes after the Delete
\* event of the pod: when the wait ends with a role label, the pod of that
\* name is the replacement, running and bearing a role label.
C38_LabelSeenIsOfReplacement ==
    [][(/\ rp.pc = "waitForPodLabel"
        /\ rp'.pc = "unregister"
        /\ ~rp'.err) =>
           /\ pods[rp.target].status = "running"
           /\ pods[rp.target].role \in {PodRoleMaster, PodRoleReplica}]_vars

\* the names of the pods of the list of the rolling update
ListedNames == {rp.listing[i].name : i \in 1..Len(rp.listing)}

\* C39: the pod that recreatePod is about to delete is a pod of the list,
\* and a rolling update that has returned without error has deleted every
\* pod of the list once, however many masters the list has.
C39_EveryListedPodDeletedOnce ==
    /\ rp.pc = "delete" => rp.target \in ListedNames
    /\ rp.result = "ok" =>
           \A name \in ListedNames :
               Cardinality({j \in 1..Len(deletions) : deletions[j] = name}) = 1

\* the half of C39 that holds: no pod is deleted twice, and no pod outside
\* the list is deleted
C39_NoStrayDeletion ==
    \A j \in 1..Len(deletions) :
        /\ deletions[j] \in ListedNames
        /\ \A k \in 1..Len(deletions) : deletions[k] = deletions[j] => k = j
====
